---- MODULE Spec2Model ----
(***************************************************************************)
(* A model of js.rs: the tree-walking evaluator (src/src/exec.rs) and the  *)
(* lexer (src/src/lexer.rs).                                               *)
(*                                                                         *)
(* Spec     : an embedder drives one Interpreter through the Executor      *)
(*            interface (set_global, make_scope, destroy_scope, run).      *)
(* LexSpec  : Lexer::lex_str on a script, one loop iteration per step.     *)
(***************************************************************************)
EXTENDS Integers, Sequences, FiniteSets, TLC

VARIABLES
    interp,   \* struct Interpreter {global, scopes} and the Gc heap it points into
    last,     \* what the last Executor call was and what it returned
    lexer,    \* struct Lexer, with the reader `buffer` as the unread characters
    script,   \* the argument of Lexer::lex_str
    lexing    \* where Lexer::lex is: "loop", or how it ended: "Ok", "Err", "Fail"

vars == <<interp, last, lexer, script, lexing>>

(***************************************************************************)
(* Bounds of the model                                                     *)
(***************************************************************************)
MaxScopes == 2      \* scopes the embedder pushes with make_scope

(***************************************************************************)
(* f64: IEEE 754 binary64 by its fields, sign (1 bit), exp (11 bits,       *)
(* biased) and the 52 fraction bits as hi (the upper 26) and lo (the lower *)
(* 26).  The arithmetic is exact on naturals held as sequences of 15-bit   *)
(* limbs, lowest limb first and no zero limb on top, then rounded to       *)
(* nearest, ties to even.                                                  *)
(***************************************************************************)
F64(sign, exp, hi, lo) == [sign |-> sign, exp |-> exp, hi |-> hi, lo |-> lo]
Zero(sign) == F64(sign, 0, 0, 0)
Infinity(sign) == F64(sign, 2047, 0, 0)
NaN == F64(0, 2047, 33554432, 0)
is_nan(f) == f.exp = 2047 /\ (f.hi # 0 \/ f.lo # 0)
is_infinite(f) == f.exp = 2047 /\ f.hi = 0 /\ f.lo = 0
is_zero(f) == f.exp = 0 /\ f.hi = 0 /\ f.lo = 0
neg(f) == [f EXCEPT !.sign = 1 - f.sign]

Max(a, b) == IF a >= b THEN a ELSE b
Min(a, b) == IF a <= b THEN a ELSE b

RECURSIVE Pow(_, _)
Pow(b, n) == IF n = 0 THEN 1 ELSE b * Pow(b, n - 1)

RECURSIVE Limbs(_)
Limbs(n) == IF n = 0 THEN <<>> ELSE <<n % 32768>> \o Limbs(n \div 32768)
RECURSIVE Trim(_)
Trim(b) ==
    IF b = <<>> THEN b
    ELSE IF b[Len(b)] # 0 THEN b
    ELSE Trim(SubSeq(b, 1, Len(b) - 1))
Zeros(k) == [i \in 1..k |-> 0]
Rest(b) == IF b = <<>> THEN <<>> ELSE Tail(b)
Low(b) == IF b = <<>> THEN 0 ELSE Head(b)
\* bit i of b, the lowest being bit 1, and the number of bits of b
Bit(b, i) ==
    IF i >= 1 /\ i <= 15 * Len(b)
    THEN (b[((i - 1) \div 15) + 1] \div Pow(2, (i - 1) % 15)) % 2
    ELSE 0
RECURSIVE IntLen(_)
IntLen(n) == IF n = 0 THEN 0 ELSE 1 + IntLen(n \div 2)
BitLen(b) == IF b = <<>> THEN 0 ELSE 15 * (Len(b) - 1) + IntLen(b[Len(b)])

RECURSIVE BAdd(_, _, _)
sum_limb(t, a, b) == <<t % 32768>> \o BAdd(a, b, t \div 32768)
BAdd(a, b, carry) ==
    IF a = <<>> /\ b = <<>> THEN (IF carry = 1 THEN <<1>> ELSE <<>>)
    ELSE sum_limb(Low(a) + Low(b) + carry, Rest(a), Rest(b))

\* a - b for a >= b
RECURSIVE BSubRaw(_, _, _)
diff_limb(t, a, b) == <<(t + 32768) % 32768>> \o BSubRaw(a, b, IF t < 0 THEN 1 ELSE 0)
BSubRaw(a, b, borrow) ==
    IF a = <<>> THEN <<>> ELSE diff_limb(Head(a) - Low(b) - borrow, Tail(a), Rest(b))
BSub(a, b) == Trim(BSubRaw(a, b, 0))

\* negative, 0, positive as a < b, a = b, a > b
RECURSIVE BCmpFrom(_, _, _)
BCmpFrom(a, b, i) ==
    IF i = 0 THEN 0
    ELSE IF a[i] # b[i] THEN a[i] - b[i]
    ELSE BCmpFrom(a, b, i - 1)
BCmp(a, b) ==
    IF Len(a) # Len(b) THEN Len(a) - Len(b) ELSE BCmpFrom(a, b, Len(a))

\* a * m + carry for one limb m
RECURSIVE BMulLimb(_, _, _)
product_limb(t, a, m) == <<t % 32768>> \o BMulLimb(a, m, t \div 32768)
BMulLimb(a, m, carry) ==
    IF a = <<>> THEN Limbs(carry) ELSE product_limb(Head(a) * m + carry, Tail(a), m)
Times(a, m) == IF m = 0 THEN <<>> ELSE BMulLimb(a, m, 0)

Up(b) == IF b = <<>> THEN <<>> ELSE <<0>> \o b
RECURSIVE BMul(_, _)
BMul(a, b) ==
    IF a = <<>> \/ b = <<>> THEN <<>>
    ELSE BAdd(Times(a, Head(b)), Up(BMul(a, Tail(b))), 0)

\* the quotient of a by one limb m, the limbs of a taken from the top with
\* remainder r
RECURSIVE BDivLimb(_, _, _, _)
quotient_limb(t, a, i, m) == BDivLimb(a, i - 1, m, t % m) \o <<t \div m>>
BDivLimb(a, i, m, r) ==
    IF i = 0 THEN <<>> ELSE quotient_limb(r * 32768 + a[i], a, i, m)

Shl(b, k) == IF b = <<>> THEN <<>> ELSE Zeros(k \div 15) \o Times(b, Pow(2, k % 15))
Shr(b, k) ==
    IF k \div 15 >= Len(b) THEN <<>>
    ELSE Trim(BDivLimb(SubSeq(b, (k \div 15) + 1, Len(b)), Len(b) - (k \div 15),
                       Pow(2, k % 15), 0))

\* the largest limb q + x, x below 2^j, with d * (q + x) <= r
RECURSIVE quotient_digit(_, _, _, _)
quotient_digit(r, d, q, j) ==
    IF j = 0 THEN q
    ELSE IF BCmp(Times(d, q + Pow(2, j - 1)), r) <= 0
         THEN quotient_digit(r, d, q + Pow(2, j - 1), j - 1)
         ELSE quotient_digit(r, d, q, j - 1)

\* quotient and remainder of a by d, the limbs of a taken from the top: qr is
\* the quotient and the remainder of the limbs taken so far
RECURSIVE BDivFrom(_, _, _)
with_digit(qr, r, d, digit) ==
    [q |-> <<digit>> \o qr.q, r |-> BSub(r, Times(d, digit))]
div_limb(qr, r, d) == with_digit(qr, r, d, quotient_digit(r, d, 0, 15))
div_step(qr, limb, d) == div_limb(qr, Trim(<<limb>> \o qr.r), d)
BDivFrom(a, d, qr) ==
    IF Len(qr.q) = Len(a) THEN qr
    ELSE BDivFrom(a, d, div_step(qr, a[Len(a) - Len(qr.q)], d))
trimmed_q(qr) == [q |-> Trim(qr.q), r |-> qr.r]
\* the remainder of a by one limb m, the limbs of a taken from the top
RECURSIVE BRemLimb(_, _, _, _)
BRemLimb(a, i, m, r) ==
    IF i = 0 THEN r ELSE BRemLimb(a, i - 1, m, (r * 32768 + a[i]) % m)
BDivMod(a, d) ==
    IF Len(d) = 1
    THEN [q |-> Trim(BDivLimb(a, Len(a), d[1], 0)), r |-> Limbs(BRemLimb(a, Len(a), d[1], 0))]
    ELSE trimmed_q(BDivFrom(a, d, [q |-> <<>>, r |-> <<>>]))
\* the number of zero limbs at the low end of b
RECURSIVE LowZeros(_)
LowZeros(b) == IF b = <<>> \/ Head(b) # 0 THEN 0 ELSE 1 + LowZeros(Tail(b))

\* b modulo 2^26
Low26(b) == Low(b) + 32768 * (Low(Rest(b)) % 2048)

\* the finite f64 of sign s and mantissa K (at most 54 bits) with its lowest
\* bit worth 2^q
RECURSIVE encode(_, _, _)
from_fields(sign, exp, K) == F64(sign, exp, Low26(Shr(K, 26)), Low26(K))
encode(sign, K, q) ==
    IF K = <<>> THEN Zero(sign)
    ELSE IF BitLen(K) = 54 THEN encode(sign, Shr(K, 1), q + 1)
    ELSE IF BitLen(K) = 53
         THEN (IF q + 1075 >= 2047 THEN Infinity(sign) ELSE from_fields(sign, q + 1075, K))
    ELSE from_fields(sign, 0, K)

\* M without its `drop` lowest bits, rounded to nearest, ties to even;
\* inexact: a nonzero part below M was cut off already
round_up(M, drop, inexact) ==
    /\ Bit(M, drop) = 1
    /\ \/ inexact
       \/ \E i \in 1..(drop - 1) : Bit(M, i) = 1
       \/ Bit(M, drop + 1) = 1
rounded(M, drop, inexact) ==
    IF drop <= 0 THEN Shl(M, 0 - drop)
    ELSE IF round_up(M, drop, inexact) THEN BAdd(Shr(M, drop), <<1>>, 0)
    ELSE Shr(M, drop)

\* the f64 nearest to (-1)^sign * M * 2^E
pack_at(sign, M, E, inexact, q) == encode(sign, rounded(M, q - E, inexact), q)
pack(sign, M, E, inexact) == pack_at(sign, M, E, inexact, Max(E + BitLen(M) - 53, -1074))

\* a finite f64 as mantissa and exponent: f = (-1)^sign * mantissa * 2^exponent
mantissa(f) ==
    BAdd(Limbs(f.lo), Shl(BAdd(Limbs(f.hi), IF f.exp > 0 THEN Shl(<<1>>, 26) ELSE <<>>, 0), 26), 0)
exponent(f) == IF f.exp > 0 THEN f.exp - 1075 ELSE -1074

\* n as f64, for an integer n
from_int(n) == pack(IF n < 0 THEN 1 ELSE 0, Limbs(IF n < 0 THEN 0 - n ELSE n), 0, FALSE)

sign_of_product(a, b) == (a.sign + b.sign) % 2

mul(a, b) ==
    IF is_nan(a) \/ is_nan(b) THEN NaN
    ELSE IF (is_infinite(a) /\ is_zero(b)) \/ (is_zero(a) /\ is_infinite(b)) THEN NaN
    ELSE IF is_infinite(a) \/ is_infinite(b) THEN Infinity(sign_of_product(a, b))
    ELSE pack(sign_of_product(a, b), BMul(mantissa(a), mantissa(b)),
              exponent(a) + exponent(b), FALSE)

\* Ma * 2^Ea / (Mb * 2^Eb), the quotient carried to 56 bits or more
quotient(sign, qr, E) == pack(sign, qr.q, E, qr.r # <<>>)
div_shifted(sign, Ma, Ea, Mb, Eb) ==
    quotient(sign, BDivMod(Shl(Ma, 56 + BitLen(Mb)), Mb), Ea - Eb - 56 - BitLen(Mb))
div_finite(sign, Ma, Ea, Mb, Eb) ==
    div_shifted(sign, Ma, Ea, SubSeq(Mb, LowZeros(Mb) + 1, Len(Mb)), Eb + 15 * LowZeros(Mb))
div(a, b) ==
    IF is_nan(a) \/ is_nan(b) THEN NaN
    ELSE IF (is_infinite(a) /\ is_infinite(b)) \/ (is_zero(a) /\ is_zero(b)) THEN NaN
    ELSE IF is_infinite(a) \/ is_zero(b) THEN Infinity(sign_of_product(a, b))
    ELSE IF is_infinite(b) \/ is_zero(a) THEN Zero(sign_of_product(a, b))
    ELSE div_finite(sign_of_product(a, b), mantissa(a), exponent(a),
                    mantissa(b), exponent(b))

\* A and B are the two mantissas at one exponent E; an operand more than 64
\* binary places below the other does not change the rounded sum
add_aligned(sa, A, sb, B, E) ==
    IF sa # sb /\ BCmp(A, B) = 0 THEN Zero(0)
    ELSE pack(IF sa = sb \/ BCmp(A, B) > 0 THEN sa ELSE sb,
              IF sa = sb THEN BAdd(A, B, 0)
              ELSE IF BCmp(A, B) > 0 THEN BSub(A, B)
              ELSE BSub(B, A),
              E, FALSE)
add_finite(sa, Ma, Ea, sb, Mb, Eb) ==
    add_aligned(sa, Shl(Ma, Ea - Min(Ea, Eb)), sb, Shl(Mb, Eb - Min(Ea, Eb)), Min(Ea, Eb))
add(a, b) ==
    IF is_nan(a) \/ is_nan(b) THEN NaN
    ELSE IF is_infinite(a) /\ is_infinite(b) THEN (IF a.sign = b.sign THEN a ELSE NaN)
    ELSE IF is_infinite(a) THEN a
    ELSE IF is_infinite(b) THEN b
    ELSE IF is_zero(a) /\ is_zero(b) THEN Zero(a.sign * b.sign)
    ELSE IF is_zero(a) \/ exponent(b) - exponent(a) > 64 THEN b
    ELSE IF is_zero(b) \/ exponent(a) - exponent(b) > 64 THEN a
    ELSE add_finite(a.sign, mantissa(a), exponent(a), b.sign, mantissa(b), exponent(b))
sub(a, b) == add(a, neg(b))

\* the remainder of the truncated division, with the sign of a
rem_stripped(sign, A, B, E, z) ==
    pack(sign, BDivMod(SubSeq(A, z + 1, Len(A)), SubSeq(B, z + 1, Len(B))).r, E + 15 * z, FALSE)
rem_aligned(sign, A, B, E) == rem_stripped(sign, A, B, E, Min(LowZeros(A), LowZeros(B)))
rem_finite(sign, Ma, Ea, Mb, Eb) ==
    rem_aligned(sign, Shl(Ma, Ea - Min(Ea, Eb)), Shl(Mb, Eb - Min(Ea, Eb)), Min(Ea, Eb))
rem(a, b) ==
    IF is_nan(a) \/ is_nan(b) \/ is_infinite(a) \/ is_zero(b) THEN NaN
    ELSE IF is_infinite(b) \/ is_zero(a) THEN a
    ELSE rem_finite(a.sign, mantissa(a), exponent(a), mantissa(b), exponent(b))

\* a == b and a < b on f64: NaN equals nothing, the two zeros are equal
eq(a, b) == ~is_nan(a) /\ ~is_nan(b) /\ (a = b \/ (is_zero(a) /\ is_zero(b)))
lt_magnitude(a, b) ==
    \/ a.exp < b.exp
    \/ a.exp = b.exp /\ a.hi < b.hi
    \/ a.exp = b.exp /\ a.hi = b.hi /\ a.lo < b.lo
lt(a, b) ==
    /\ ~is_nan(a) /\ ~is_nan(b) /\ ~eq(a, b)
    /\ IF a.sign # b.sign THEN a.sign = 1
       ELSE IF a.sign = 0 THEN lt_magnitude(a, b) ELSE lt_magnitude(b, a)
le(a, b) == lt(a, b) \/ eq(a, b)

\* the integer part of the magnitude of a finite f, and whether f is a whole number
trunc(f) ==
    IF exponent(f) >= 0 THEN Shl(mantissa(f), exponent(f))
    ELSE Shr(mantissa(f), 0 - exponent(f))
is_whole(f) ==
    f.exp < 2047 /\ (exponent(f) >= 0 \/ Shl(trunc(f), 0 - exponent(f)) = mantissa(f))
\* the natural that limbs b hold, below 2^31
RECURSIVE Natural(_)
Natural(b) == IF b = <<>> THEN 0 ELSE Head(b) + 32768 * Natural(Tail(b))

\* an i32 from its bits 0..31 (b[31] the sign), and bit i of an i32
RECURSIVE low_bits(_, _)
low_bits(b, i) == IF i > 30 THEN 0 ELSE b[i] + 2 * low_bits(b, i + 1)
i32(b) ==
    IF b[31] = 1 THEN (low_bits(b, 0) - 1073741824) - 1073741824 ELSE low_bits(b, 0)
bit32(n, i) ==
    IF i = 31 THEN (IF n < 0 THEN 1 ELSE 0)
    ELSE IF n >= 0 THEN (n \div Pow(2, i)) % 2
    ELSE 1 - (((0 - (n + 1)) \div Pow(2, i)) % 2)
\* the i32 of the low 32 bits of the integer part of f, negated for a negative f
wrapped(b) == i32([i \in 0..31 |-> Bit(b, i + 1)])
negated(sign, n) ==
    IF sign = 0 \/ n = (0 - 1073741824) - 1073741824 THEN n ELSE 0 - n
to_i32(f) ==
    IF f.exp = 2047 \/ exponent(f) >= 32 THEN 0 ELSE negated(f.sign, wrapped(trunc(f)))

(***************************************************************************)
(* js::value: the value sum type and the object model                      *)
(***************************************************************************)
Val(type, n, s) == [type |-> type, n |-> n, s |-> s, num |-> Zero(0)]
VUndefined == Val("VUndefined", 0, "")
VNull == Val("VNull", 0, "")
VNumber(f) == [type |-> "VNumber", n |-> 0, s |-> "", num |-> f]   \* f: the f64
VInteger(n) == Val("VInteger", n, "")     \* n: the i32
VBoolean(b) == Val("VBoolean", IF b THEN 1 ELSE 0, "")
VString(s) == Val("VString", 0, s)
VObject(h) == Val("VObject", h, "")       \* h: index of the ObjectData in interp.heap
VFunction(f) == Val("VFunction", f, "")   \* f: index of the record in interp.funcs
\* a native Function: the host callable of that name, no record of interp.funcs
VNative(name) == Val("VFunction", 0, name)
\* the Number of an integer n
Number(n) == VNumber(from_int(n))

\* TreeMap<~str, _>: a function from the keys it holds
EmptyMap == [k \in {} |-> VUndefined]
MapSet(m, k, v) == [j \in DOMAIN m \cup {k} |-> IF j = k THEN v ELSE m[j]]

\* ObjectData: own binding, else the nearest binding along __proto__
RECURSIVE get_field_obj(_, _, _, _)
get_field_obj(heap, h, k, depth) ==
    IF k \in DOMAIN heap[h] THEN heap[h][k]
    ELSE IF "__proto__" \in DOMAIN heap[h]
            /\ heap[h]["__proto__"].type = "VObject"
            /\ depth > 0
         THEN get_field_obj(heap, heap[h]["__proto__"].n, k, depth - 1)
         ELSE VUndefined

get_field(heap, v, k) ==
    IF v.type = "VObject" THEN get_field_obj(heap, v.n, k, Len(heap)) ELSE VUndefined

\* set_field writes the object's own slot; on a non-object there is no slot
set_field(heap, v, k, val) ==
    IF v.type = "VObject"
    THEN [heap EXCEPT ![v.n] = MapSet(heap[v.n], k, val)]
    ELSE heap

is_true(v) ==
    CASE v.type \in {"VNull", "VUndefined"} -> FALSE
      [] v.type = "VBoolean" -> v.n = 1
      [] v.type = "VNumber" -> ~is_zero(v.num) /\ ~is_nan(v.num)
      [] v.type = "VString" -> v.s # ""
      [] OTHER -> TRUE

\* the decimal numeral of a natural n, and of an integer n
DecimalDigit == <<"0", "1", "2", "3", "4", "5", "6", "7", "8", "9">>
RECURSIVE Numeral(_)
Numeral(n) ==
    IF n < 10 THEN DecimalDigit[n + 1] ELSE Numeral(n \div 10) \o DecimalDigit[(n % 10) + 1]
SignedNumeral(n) == IF n < 0 THEN "-" \o Numeral(0 - n) ELSE Numeral(n)

\* to_str of a Number: NaN, the infinities, and the numeral of a whole number
\* of magnitude below 2^31; the decimal of any other f64 is not in the model
number_to_str(f) ==
    CASE is_nan(f) -> "NaN"
      [] is_infinite(f) -> IF f.sign = 1 THEN "-Infinity" ELSE "Infinity"
      [] is_zero(f) -> "0"
      [] is_whole(f) /\ BitLen(trunc(f)) <= 31 /\ ~is_zero(f) ->
            IF f.sign = 1 THEN "-" \o Numeral(Natural(trunc(f))) ELSE Numeral(Natural(trunc(f)))

to_str(v) ==
    CASE v.type = "VString" -> v.s
      [] v.type = "VNull" -> "null"
      [] v.type = "VUndefined" -> "undefined"
      [] v.type = "VBoolean" -> IF v.n = 1 THEN "true" ELSE "false"
      [] v.type = "VNumber" -> number_to_str(v.num)
      [] v.type = "VInteger" -> SignedNumeral(v.n)
      [] v.type = "VObject" -> "[object Object]"
      [] v.type = "VFunction" -> "function"

\* to_number of a String: the strings of the model are opaque, and those that
\* spell a number are the numerals of the integers of magnitude up to 99
string_to_number(s) ==
    IF \E n \in -99..99 : SignedNumeral(n) = s
    THEN from_int(CHOOSE n \in -99..99 : SignedNumeral(n) = s)
    ELSE NaN

to_number(v) ==
    CASE v.type = "VNumber" -> v.num
      [] v.type = "VInteger" -> from_int(v.n)
      [] v.type = "VBoolean" -> from_int(v.n)
      [] v.type = "VNull" -> Zero(0)
      [] v.type = "VString" -> string_to_number(v.s)
      [] OTHER -> NaN

\* ToInt32 of a value
to_int32(v) == IF v.type = "VInteger" THEN v.n ELSE to_i32(to_number(v))

\* PartialEq: the same variant and the same content, an f64 by ==, an object
\* and a function by its handle
value_eq(a, b) ==
    /\ a.type = b.type
    /\ IF a.type = "VNumber" THEN eq(a.num, b.num) ELSE a = b

\* the operators + - * / % of ValueData
value_add(a, b) ==
    IF a.type = "VString" \/ b.type = "VString" THEN VString(to_str(a) \o to_str(b))
    ELSE VNumber(add(to_number(a), to_number(b)))
value_sub(a, b) == VNumber(sub(to_number(a), to_number(b)))
value_mul(a, b) == VNumber(mul(to_number(a), to_number(b)))
value_div(a, b) == VNumber(div(to_number(a), to_number(b)))
value_rem(a, b) == VNumber(rem(to_number(a), to_number(b)))

\* the operators & | ^ << >> of ValueData, on the 32 bits of both operands
and32(m, n) == i32([i \in 0..31 |-> bit32(m, i) * bit32(n, i)])
or32(m, n) == i32([i \in 0..31 |-> Max(bit32(m, i), bit32(n, i))])
xor32(m, n) == i32([i \in 0..31 |-> (bit32(m, i) + bit32(n, i)) % 2])
shl32(n, k) == i32([i \in 0..31 |-> IF i >= k THEN bit32(n, i - k) ELSE 0])
shr32(n, k) == i32([i \in 0..31 |-> bit32(n, Min(i + k, 31))])
value_bitand(a, b) == VInteger(and32(to_int32(a), to_int32(b)))
value_bitor(a, b) == VInteger(or32(to_int32(a), to_int32(b)))
value_bitxor(a, b) == VInteger(xor32(to_int32(a), to_int32(b)))
value_shl(a, b) == VInteger(shl32(to_int32(a), to_int32(b) % 32))
value_shr(a, b) == VInteger(shr32(to_int32(a), to_int32(b) % 32))

(***************************************************************************)
(* ast: constants and expressions                                          *)
(***************************************************************************)
Const(ctag, n, s) == [ctag |-> ctag, n |-> n, s |-> s, num |-> Zero(0)]
CNull == Const("CNull", 0, "")
CUndefined == Const("CUndefined", 0, "")
CNum(f) == [ctag |-> "CNum", n |-> 0, s |-> "", num |-> f]   \* f: the f64
CInt(n) == Const("CInt", n, "")
CString(s) == Const("CString", 0, s)
CBool(b) == Const("CBool", IF b THEN 1 ELSE 0, "")
CRegExp == Const("CRegExp", 0, "")

\* name: a local, a field or a function name ("" is None); args: parameter names
Expr(tag, name, c, args, kids) ==
    [tag |-> tag, name |-> name, c |-> c, args |-> args, kids |-> kids]
ConstExpr(c) == Expr("ConstExpr", "", c, <<>>, <<>>)
BlockExpr(es) == Expr("BlockExpr", "", CNull, <<>>, es)
LocalExpr(name) == Expr("LocalExpr", name, CNull, <<>>, <<>>)
GetConstFieldExpr(obj, field) == Expr("GetConstFieldExpr", field, CNull, <<>>, <<obj>>)
GetFieldExpr(obj, field) == Expr("GetFieldExpr", "", CNull, <<>>, <<obj, field>>)
CallExpr(callee, args) == Expr("CallExpr", "", CNull, <<>>, <<callee>> \o args)
IfExpr(cond, expr) == Expr("IfExpr", "", CNull, <<>>, <<cond, expr>>)
IfElseExpr(cond, expr, else_e) == Expr("IfExpr", "", CNull, <<>>, <<cond, expr, else_e>>)
FunctionDeclExpr(name, args, expr) == Expr("FunctionDeclExpr", name, CNull, args, <<expr>>)
ConstructExpr(callee, args) == Expr("ConstructExpr", "", CNull, <<>>, <<callee>> \o args)
ReturnExpr(v) == Expr("ReturnExpr", "", CNull, <<>>, <<v>>)
ReturnNone == Expr("ReturnExpr", "", CNull, <<>>, <<>>)
ThrowExpr(ex) == Expr("ThrowExpr", "", CNull, <<>>, <<ex>>)
AssignExpr(ref_e, val_e) == Expr("AssignExpr", "", CNull, <<>>, <<ref_e, val_e>>)
\* one (~Expr, Vec<~Expr>) tuple of a SwitchExpr: the case expression, then the block
Case(cond, block) == Expr("Case", "", CNull, <<>>, <<cond>> \o block)
\* SwitchExpr(val_e, vals, default): default is <<>> for None and <<e>> for Some(e)
SwitchExpr(val_e, vals, default) ==
    Expr("SwitchExpr", "", CNull, <<>>, <<val_e, BlockExpr(vals), BlockExpr(default)>>)
WhileLoopExpr(cond, expr) == Expr("WhileLoopExpr", "", CNull, <<>>, <<cond, expr>>)
\* ObjectDeclExpr(map): the keys of the TreeMap in ascending order, and their values
ObjectDeclExpr(keys, vals) == Expr("ObjectDeclExpr", "", CNull, keys, vals)
ArrayDeclExpr(arr) == Expr("ArrayDeclExpr", "", CNull, <<>>, arr)
\* name: the NumOp (OpAdd, OpSub, OpMul, OpDiv, OpMod) or the BitOp (BitAnd,
\* BitOr, BitXor, BitShl, BitShr)
NumOpExpr(op, a, b) == Expr("NumOpExpr", op, CNull, <<>>, <<a, b>>)
BitOpExpr(op, a, b) == Expr("BitOpExpr", op, CNull, <<>>, <<a, b>>)

\* the == of Const and of Expr: structural, the f64 of a CNum by the == of
\* f64, so that an expression holding a NaN literal is not == itself
const_eq(a, b) ==
    /\ a.ctag = b.ctag /\ a.n = b.n /\ a.s = b.s
    /\ a.ctag = "CNum" => eq(a.num, b.num)
RECURSIVE expr_eq(_, _)
expr_eq(a, b) ==
    /\ a.tag = b.tag /\ a.name = b.name /\ a.args = b.args
    /\ const_eq(a.c, b.c)
    /\ Len(a.kids) = Len(b.kids)
    /\ \A i \in DOMAIN a.kids : expr_eq(a.kids[i], b.kids[i])

(***************************************************************************)
(* ResultValue, with the failure of the task (a failed unwrap) as a third  *)
(* outcome                                                                 *)
(***************************************************************************)
Ok(I, v) == [I |-> I, kind |-> "Ok", val |-> v]
Err(I, v) == [I |-> I, kind |-> "Err", val |-> v]
Fail(I) == [I |-> I, kind |-> "Fail", val |-> VUndefined]

(***************************************************************************)
(* Interpreter                                                             *)
(***************************************************************************)
\* the global names Interpreter::new binds, in the order of its set_field calls
Builtins == <<"console", "Math", "Object", "Array", "Function", "JSON", "Number", "Error">>

\* module::_create(): a fresh object, the last of the heap returned; the modules
\* are external, and of what they configure the model keeps the `prototype`
\* object that object and array literals read from Object and Array
create(heap, module) ==
    IF module \in {"Object", "Array"}
    THEN Append(Append(heap, EmptyMap),
                MapSet(EmptyMap, "prototype", VObject(Len(heap) + 1)))
    ELSE Append(heap, EmptyMap)

\* global.set_field(name, module::_create()) for the i-th built-in and the later ones
RECURSIVE install(_, _)
installed(heap, i) == install(set_field(heap, VObject(1), Builtins[i], VObject(Len(heap))), i + 1)
install(heap, i) ==
    IF i > Len(Builtins) THEN heap ELSE installed(create(heap, Builtins[i]), i)

\* number::init(global) and uri::init(global): the modules are external.  Each
\* call writes fields of the global object; `names` are the ones it writes,
\* the two numbers as Numbers and every other name as a native Function
NumberGlobals == <<"NaN", "Infinity", "parseFloat", "parseInt", "isFinite", "isNaN">>
UriGlobals == <<"encodeURI", "encodeURIComponent", "decodeURI", "decodeURIComponent">>
init_value(name) ==
    CASE name = "NaN" -> VNumber(NaN)
      [] name = "Infinity" -> VNumber(Infinity(0))
      [] OTHER -> VNative(name)
RECURSIVE init(_, _, _)
init(heap, names, i) ==
    IF i > Len(names) THEN heap
    ELSE init(set_field(heap, VObject(1), names[i], init_value(names[i])), names, i + 1)
\* what the two calls may leave: <<the names number::init writes, the names
\* uri::init writes>>
InitOutcomes == {<<<<>>, <<>>>>, <<NumberGlobals, UriGlobals>>}

\* Interpreter::new: the global object with the built-ins installed, then
\* number::init(global) and uri::init(global)
new(written) ==
    [global |-> VObject(1),
     heap |-> init(init(install(<<EmptyMap>>, 1), written[1], 1), written[2], 1),
     funcs |-> <<>>,
     scopes |-> <<>>]

set_global(I, name, val) == [I EXCEPT !.heap = set_field(I.heap, I.global, name, val)]

get_global(I, name) == get_field(I.heap, I.global, name)

make_scope(I) == [I EXCEPT !.scopes = Append(I.scopes, EmptyMap)]

destroy_scope(I) ==
    [I EXCEPT !.scopes = IF Len(I.scopes) = 0 THEN <<>>
                         ELSE SubSeq(I.scopes, 1, Len(I.scopes) - 1)]

\* LocalExpr: for scope in self.scopes.iter().rev() { find(name) ... break }
RECURSIVE find_local(_, _, _)
find_local(scopes, name, i) ==
    IF i = 0 THEN VUndefined
    ELSE IF name \in DOMAIN scopes[i] THEN scopes[i][name]
    ELSE find_local(scopes, name, i - 1)

run_ConstExpr(I, c) ==
    CASE c.ctag = "CNull" -> Ok(I, VNull)
      [] c.ctag = "CUndefined" -> Ok(I, VUndefined)
      [] c.ctag = "CNum" -> Ok(I, VNumber(c.num))
      [] c.ctag = "CInt" -> Ok(I, VNumber(from_int(c.n)))
      [] c.ctag = "CString" -> Ok(I, VString(c.s))
      [] c.ctag = "CBool" -> Ok(I, VBoolean(c.n = 1))
      [] c.ctag = "CRegExp" -> Ok(I, VBoolean(TRUE))

run_LocalExpr(I, name) ==
    LET value == find_local(I.scopes, name, Len(I.scopes))
    IN  Ok(I, IF value = VUndefined THEN get_field(I.heap, I.global, name) ELSE value)

RECURSIVE run(_, _)
RECURSIVE run_block(_, _, _, _)
RECURSIVE run_args(_, _, _, _)
RECURSIVE call(_, _, _, _)
RECURSIVE run_cases(_, _, _, _, _, _)

\* run_block without the try!: a throwing child does not stop the block
run_block_no_try(I, es, i, obj) ==
    IF i > Len(es) THEN Ok(I, obj)
    ELSE LET r == run(I, es[i])
         IN  run_block(r.I, es, i + 1, IF expr_eq(es[i], es[Len(es)]) THEN r.val ELSE obj)

\* BlockExpr: for e in es.iter() { let val = try!(run(e)); if e == es.last() { obj = val } }
\* with the == of Expr: obj stays VNull when the last expression is not == itself
run_block(I, es, i, obj) ==
    IF i > Len(es) THEN Ok(I, obj)
    ELSE LET r == run(I, es[i])
         IN  IF r.kind # "Ok" THEN r
             ELSE run_block(r.I, es, i + 1, IF expr_eq(es[i], es[Len(es)]) THEN r.val ELSE obj)

run_BlockExpr(I, es) == run_block(I, es, 1, VNull)

\* for arg in args.iter() { v_args.push(try!(run(arg))) }; val of Ok is the Vec
run_args(I, args, i, v_args) ==
    IF i > Len(args) THEN [I |-> I, kind |-> "Ok", val |-> v_args]
    ELSE LET r == run(I, args[i])
         IN  IF r.kind # "Ok" THEN r
             ELSE run_args(r.I, args, i + 1, Append(v_args, r.val))

\* RegularFunction::call: push a scope, bind the parameters and `this`,
\* evaluate the body, pop the scope on every exit path.  The call of a
\* native Function is the host's and has no case here.
bind_args(names, v_args, this) ==
    [k \in {names[j] : j \in 1..Len(names)} \cup {"this"} |->
        IF k = "this" THEN this
        ELSE LET j == CHOOSE j \in 1..Len(names) :
                        names[j] = k /\ \A m \in (j + 1)..Len(names) : names[m] # k
             IN  IF j <= Len(v_args) THEN v_args[j] ELSE VUndefined]

call(I, func, this, v_args) ==
    LET fn == I.funcs[func.n]
        I1 == [I EXCEPT !.scopes = Append(I.scopes, bind_args(fn.args, v_args, this))]
        r  == run(I1, fn.expr)
    IN  [r EXCEPT !.I = destroy_scope(r.I)]

run_GetConstFieldExpr(I, obj, field) ==
    LET val_obj == run(I, obj)
    IN  IF val_obj.kind # "Ok" THEN val_obj
        ELSE Ok(val_obj.I, get_field(val_obj.I.heap, val_obj.val, field))

run_GetFieldExpr(I, obj, field) ==
    LET val_obj == run(I, obj)
    IN  IF val_obj.kind # "Ok" THEN val_obj
        ELSE LET val_field == run(val_obj.I, field)
             IN  IF val_field.kind # "Ok" THEN val_field
                 ELSE Ok(val_field.I,
                         get_field(val_field.I.heap, val_obj.val, to_str(val_field.val)))

\* resolve_callee with the global object as `this` for every callee
resolve_callee_global(I, callee) ==
    CASE callee.tag = "GetConstFieldExpr" ->
            LET obj == run(I, callee.kids[1])
            IN  IF obj.kind # "Ok" THEN obj
                ELSE [I |-> obj.I, kind |-> "Ok",
                      val |-> <<I.global, get_field(obj.I.heap, obj.val, callee.name)>>]
      [] callee.tag = "GetFieldExpr" ->
            LET obj == run(I, callee.kids[1])
            IN  IF obj.kind # "Ok" THEN obj
                ELSE LET field == run(obj.I, callee.kids[2])
                     IN  IF field.kind # "Ok" THEN field
                         ELSE [I |-> field.I, kind |-> "Ok",
                               val |-> <<I.global,
                                         get_field(field.I.heap, obj.val, to_str(field.val))>>]
      [] OTHER ->
            LET func == run(I, callee)
            IN  IF func.kind # "Ok" THEN func
                ELSE [I |-> func.I, kind |-> "Ok", val |-> <<I.global, func.val>>]

\* the (this, func) pair a CallExpr resolves; val of Ok is the pair
resolve_callee(I, callee) ==
    CASE callee.tag = "GetConstFieldExpr" ->
            LET obj == run(I, callee.kids[1])
            IN  IF obj.kind # "Ok" THEN obj
                ELSE [I |-> obj.I, kind |-> "Ok",
                      val |-> <<obj.val, get_field(obj.I.heap, obj.val, callee.name)>>]
      [] callee.tag = "GetFieldExpr" ->
            LET obj == run(I, callee.kids[1])
            IN  IF obj.kind # "Ok" THEN obj
                ELSE LET field == run(obj.I, callee.kids[2])
                     IN  IF field.kind # "Ok" THEN field
                         ELSE [I |-> field.I, kind |-> "Ok",
                               val |-> <<obj.val,
                                         get_field(field.I.heap, obj.val, to_str(field.val))>>]
      [] OTHER ->
            LET func == run(I, callee)
            IN  IF func.kind # "Ok" THEN func
                ELSE [I |-> func.I, kind |-> "Ok", val |-> <<I.global, func.val>>]

\* run_CallExpr yielding Undefined, as ConstructExpr does, for a non-function
run_CallExpr_yields(I, callee, args) ==
    LET tf == resolve_callee(I, callee)
    IN  IF tf.kind # "Ok" THEN tf
        ELSE LET v_args == run_args(tf.I, args, 1, <<>>)
             IN  IF v_args.kind # "Ok" THEN v_args
                 ELSE IF tf.val[2].type = "VFunction"
                      THEN call(v_args.I, tf.val[2], tf.val[1], v_args.val)
                      ELSE Ok(v_args.I, VUndefined)

run_CallExpr(I, callee, args) ==
    LET tf == resolve_callee(I, callee)
    IN  IF tf.kind # "Ok" THEN tf
        ELSE LET v_args == run_args(tf.I, args, 1, <<>>)
             IN  IF v_args.kind # "Ok" THEN v_args
                 ELSE IF tf.val[2].type = "VFunction"
                      THEN call(v_args.I, tf.val[2], tf.val[1], v_args.val)
                      ELSE Err(v_args.I, VUndefined)

run_IfExpr(I, kids) ==
    LET cond == run(I, kids[1])
    IN  IF cond.kind # "Ok" THEN cond
        ELSE IF is_true(cond.val) THEN run(cond.I, kids[2])
        ELSE IF Len(kids) = 3 THEN run(cond.I, kids[3])
        ELSE Ok(cond.I, VUndefined)

run_FunctionDeclExpr(I, name, args, expr) ==
    LET I1 == [I EXCEPT !.funcs = Append(I.funcs, [args |-> args, expr |-> expr])]
        val == VFunction(Len(I1.funcs))
    IN  Ok(IF name # "" THEN [I1 EXCEPT !.heap = set_field(I1.heap, I1.global, name, val)]
           ELSE I1,
           val)

\* ConstructExpr: the callee's result is unwrapped, so a throw in it fails the task
run_ConstructExpr(I, callee, args) ==
    LET func == run(I, callee)
    IN  IF func.kind # "Ok" THEN func
        ELSE LET v_args == run_args(func.I, args, 1, <<>>)
             IN  IF v_args.kind # "Ok" THEN v_args
                 ELSE LET I1 == [v_args.I EXCEPT !.heap = Append(v_args.I.heap, EmptyMap)]
                          this == VObject(Len(I1.heap))
                          I2 == [I1 EXCEPT !.heap =
                                    set_field(I1.heap, this, "__proto__",
                                              get_field(I1.heap, func.val, "prototype"))]
                      IN  IF func.val.type = "VFunction"
                          THEN LET r == call(I2, func.val, this, v_args.val)
                               IN  IF r.kind = "Ok" THEN Ok(r.I, this) ELSE Fail(r.I)
                          ELSE Ok(I2, VUndefined)

run_ReturnExpr(I, ret) ==
    IF Len(ret) = 1 THEN run(I, ret[1]) ELSE Ok(I, VUndefined)

run_ThrowExpr(I, ex) ==
    LET r == run(I, ex)
    IN  IF r.kind # "Ok" THEN r ELSE Err(r.I, r.val)

\* run_AssignExpr with the LocalExpr arm lost to the silent default arm
run_AssignExpr_no_local(I, ref_e, val_e) ==
    LET val == run(I, val_e)
    IN  IF val.kind # "Ok" THEN val
        ELSE CASE ref_e.tag = "GetConstFieldExpr" ->
                    LET val_obj == run(val.I, ref_e.kids[1])
                    IN  IF val_obj.kind # "Ok" THEN val_obj
                        ELSE Ok([val_obj.I EXCEPT !.heap =
                                    set_field(val_obj.I.heap, val_obj.val,
                                              ref_e.name, val.val)],
                                val.val)
               [] OTHER -> Ok(val.I, val.val)

run_AssignExpr(I, ref_e, val_e) ==
    LET val == run(I, val_e)
    IN  IF val.kind # "Ok" THEN val
        ELSE CASE ref_e.tag = "LocalExpr" ->
                    Ok([val.I EXCEPT !.heap =
                            set_field(val.I.heap, val.I.global, ref_e.name, val.val)],
                       val.val)
               [] ref_e.tag = "GetConstFieldExpr" ->
                    LET val_obj == run(val.I, ref_e.kids[1])
                    IN  IF val_obj.kind # "Ok" THEN val_obj
                        ELSE Ok([val_obj.I EXCEPT !.heap =
                                    set_field(val_obj.I.heap, val_obj.val,
                                              ref_e.name, val.val)],
                                val.val)
               [] OTHER -> Ok(val.I, val.val)

\* SwitchExpr, the loop `for tup in vals.iter()` from the i-th tuple on: every
\* case expression is run in order; a block whose case value equals val is
\* run, and the value of every expression == the last one of the block
\* becomes the result; on an empty block `block.last().unwrap()` fails the
\* task
run_cases(I, val, vals, i, result, matched) ==
    IF i > Len(vals) THEN [I |-> I, kind |-> "Ok", val |-> result, matched |-> matched]
    ELSE LET cond == run(I, vals[i].kids[1])
             block == Tail(vals[i].kids)
         IN  IF cond.kind # "Ok" THEN cond @@ [matched |-> matched]
             ELSE IF ~value_eq(val, cond.val)
                  THEN run_cases(cond.I, val, vals, i + 1, result, matched)
                  ELSE IF block = <<>> THEN Fail(cond.I) @@ [matched |-> TRUE]
                  ELSE LET ran == run_block(cond.I, block, 1, result)
                       IN  IF ran.kind # "Ok" THEN ran @@ [matched |-> TRUE]
                           ELSE run_cases(ran.I, val, vals, i + 1, ran.val, TRUE)

\* .clone() of the ValueData behind a handle: an Object or a Function is
\* copied into a record of its own, which no other handle names; any other
\* value is the same value
clone(I, v) ==
    CASE v.type = "VObject" ->
            Ok([I EXCEPT !.heap = Append(@, I.heap[v.n])], VObject(Len(I.heap) + 1))
      [] v.type = "VFunction" /\ v.n > 0 ->
            Ok([I EXCEPT !.funcs = Append(@, I.funcs[v.n])], VFunction(Len(I.funcs) + 1))
      [] v.type = "VFunction" -> Ok(I, [v EXCEPT !.n = -1])
      [] OTHER -> Ok(I, v)

\* SwitchExpr: the discriminant once and a clone of its value taken, the
\* cases, then the default when no case matched and there is one
cloned_cases(val, vals) == run_cases(val.I, val.val, vals, 1, VNull, FALSE)
run_SwitchExpr(I, val_e, vals, default) ==
    LET val == run(I, val_e)
    IN  IF val.kind # "Ok" THEN val
        ELSE LET cases == cloned_cases(clone(val.I, val.val), vals)
             IN  IF cases.kind # "Ok" THEN [I |-> cases.I, kind |-> cases.kind, val |-> cases.val]
                 ELSE IF ~cases.matched /\ default # <<>> THEN run(cases.I, default[1])
                 ELSE Ok(cases.I, cases.val)

\* WhileLoopExpr: while try!(run(cond)).is_true() { result = try!(run(expr)) }
RECURSIVE run_while(_, _, _, _)
run_while(I, cond, expr, result) ==
    LET c == run(I, cond)
    IN  IF c.kind # "Ok" THEN c
        ELSE IF ~is_true(c.val) THEN Ok(c.I, result)
        ELSE LET r == run(c.I, expr)
             IN  IF r.kind # "Ok" THEN r ELSE run_while(r.I, cond, expr, r.val)

run_WhileLoopExpr(I, cond, expr) == run_while(I, cond, expr, VUndefined)

\* for (key, val) in map.iter() { obj.set_field(key, try!(run(val))) }, from
\* the i-th pair on
RECURSIVE run_fields(_, _, _, _, _)
run_fields(I, obj, keys, vals, i) ==
    IF i > Len(vals) THEN Ok(I, obj)
    ELSE LET r == run(I, vals[i])
         IN  IF r.kind # "Ok" THEN r
             ELSE run_fields([r.I EXCEPT !.heap = set_field(r.I.heap, obj, keys[i], r.val)],
                             obj, keys, vals, i + 1)

\* obj.set_field("__proto__", get_global(module).get_field("prototype"))
with_proto(I, obj, module) ==
    [I EXCEPT !.heap = set_field(I.heap, obj, "__proto__",
                                 get_field(I.heap, get_global(I, module), "prototype"))]

\* ObjectDeclExpr: a new object, its fields in the order of the map, then __proto__
run_ObjectDeclExpr(I, keys, vals) ==
    LET fields == run_fields([I EXCEPT !.heap = Append(I.heap, EmptyMap)],
                             VObject(Len(I.heap) + 1), keys, vals, 1)
    IN  IF fields.kind # "Ok" THEN fields
        ELSE Ok(with_proto(fields.I, fields.val, "Object"), fields.val)

\* ArrayDeclExpr: a new object, the elements under index.to_str(), then
\* __proto__, then length = to_value(index)
with_length(I, arr_map, index) ==
    [I EXCEPT !.heap = set_field(I.heap, arr_map, "length", VInteger(index))]
run_ArrayDeclExpr(I, arr) ==
    LET elements == run_fields([I EXCEPT !.heap = Append(I.heap, EmptyMap)],
                               VObject(Len(I.heap) + 1),
                               [i \in 1..Len(arr) |-> Numeral(i - 1)], arr, 1)
    IN  IF elements.kind # "Ok" THEN elements
        ELSE Ok(with_length(with_proto(elements.I, elements.val, "Array"),
                            elements.val, Len(arr)),
                elements.val)

\* NumOpExpr and BitOpExpr: a, then b, then the operator on the two values
num_op(op, v_a, v_b) ==
    CASE op = "OpAdd" -> value_add(v_a, v_b)
      [] op = "OpSub" -> value_sub(v_a, v_b)
      [] op = "OpMul" -> value_mul(v_a, v_b)
      [] op = "OpDiv" -> value_div(v_a, v_b)
      [] op = "OpMod" -> value_rem(v_a, v_b)
bit_op(op, v_a, v_b) ==
    CASE op = "BitAnd" -> value_bitand(v_a, v_b)
      [] op = "BitOr" -> value_bitor(v_a, v_b)
      [] op = "BitXor" -> value_bitxor(v_a, v_b)
      [] op = "BitShl" -> value_shl(v_a, v_b)
      [] op = "BitShr" -> value_shr(v_a, v_b)
run_NumOpExpr(I, op, a, b) ==
    LET v_a == run(I, a)
    IN  IF v_a.kind # "Ok" THEN v_a
        ELSE LET v_b == run(v_a.I, b)
             IN  IF v_b.kind # "Ok" THEN v_b
                 ELSE Ok(v_b.I, num_op(op, v_a.val, v_b.val))
run_BitOpExpr(I, op, a, b) ==
    LET v_a == run(I, a)
    IN  IF v_a.kind # "Ok" THEN v_a
        ELSE LET v_b == run(v_a.I, b)
             IN  IF v_b.kind # "Ok" THEN v_b
                 ELSE Ok(v_b.I, bit_op(op, v_a.val, v_b.val))

\* Interpreter::run: one arm for each variant of Expr
run(I, expr) ==
    CASE expr.tag = "ConstExpr" -> run_ConstExpr(I, expr.c)
      [] expr.tag = "BlockExpr" -> run_BlockExpr(I, expr.kids)
      [] expr.tag = "SwitchExpr" ->
            run_SwitchExpr(I, expr.kids[1], expr.kids[2].kids, expr.kids[3].kids)
      [] expr.tag = "LocalExpr" -> run_LocalExpr(I, expr.name)
      [] expr.tag = "GetConstFieldExpr" -> run_GetConstFieldExpr(I, expr.kids[1], expr.name)
      [] expr.tag = "GetFieldExpr" -> run_GetFieldExpr(I, expr.kids[1], expr.kids[2])
      [] expr.tag = "CallExpr" -> run_CallExpr(I, expr.kids[1], Tail(expr.kids))
      [] expr.tag = "WhileLoopExpr" -> run_WhileLoopExpr(I, expr.kids[1], expr.kids[2])
      [] expr.tag = "IfExpr" -> run_IfExpr(I, expr.kids)
      [] expr.tag = "ObjectDeclExpr" -> run_ObjectDeclExpr(I, expr.args, expr.kids)
      [] expr.tag = "ArrayDeclExpr" -> run_ArrayDeclExpr(I, expr.kids)
      [] expr.tag = "FunctionDeclExpr" ->
            run_FunctionDeclExpr(I, expr.name, expr.args, expr.kids[1])
      [] expr.tag = "NumOpExpr" -> run_NumOpExpr(I, expr.name, expr.kids[1], expr.kids[2])
      [] expr.tag = "BitOpExpr" -> run_BitOpExpr(I, expr.name, expr.kids[1], expr.kids[2])
      [] expr.tag = "ConstructExpr" -> run_ConstructExpr(I, expr.kids[1], Tail(expr.kids))
      [] expr.tag = "ReturnExpr" -> run_ReturnExpr(I, expr.kids)
      [] expr.tag = "ThrowExpr" -> run_ThrowExpr(I, expr.kids[1])
      [] expr.tag = "AssignExpr" -> run_AssignExpr(I, expr.kids[1], expr.kids[2])

(***************************************************************************)
(* Lexer.  A char is its Unicode scalar value; Ord("=") is the char '='.   *)
(***************************************************************************)
Printable == <<
    " ", "!", "\"", "#", "$", "%", "&", "'", "(", ")", "*", "+",
    ",", "-", ".", "/", "0", "1", "2", "3", "4", "5", "6", "7",
    "8", "9", ":", ";", "<", "=", ">", "?", "@", "A", "B", "C",
    "D", "E", "F", "G", "H", "I", "J", "K", "L", "M", "N", "O",
    "P", "Q", "R", "S", "T", "U", "V", "W", "X", "Y", "Z", "[",
    "\\", "]", "^", "_", "grave", "a", "b", "c", "d", "e", "f", "g",
    "h", "i", "j", "k", "l", "m", "n", "o", "p", "q", "r", "s",
    "t", "u", "v", "w", "x", "y", "z", "{", "|", "}", "~"
    >>
Ascii ==
    [s \in {Printable[i] : i \in 1..Len(Printable)} \cup {"\t", "\n", "\r"} |->
        CASE s = "\t" -> 9
          [] s = "\n" -> 10
          [] s = "\r" -> 13
          [] OTHER -> 31 + CHOOSE i \in 1..Len(Printable) : Printable[i] = s]
Ord(s) == Ascii[s]
Between(lo, ch, hi) == Ord(lo) <= ch /\ ch <= Ord(hi)

\* std::char::is_whitespace: the White_Space code points
is_whitespace(ch) ==
    \/ ch \in 9..13
    \/ ch \in {32, 133, 160, 5760, 8232, 8233, 8239, 8287, 12288}
    \/ ch \in 8192..8202

\* std::char::to_digit
digit_below(d, radix) == IF d < radix THEN <<d>> ELSE <<>>
to_digit(ch, radix) ==
    digit_below(CASE Between("0", ch, "9") -> ch - Ord("0")
                  [] Between("a", ch, "z") -> ch - Ord("a") + 10
                  [] Between("A", ch, "Z") -> ch - Ord("A") + 10
                  [] OTHER -> radix,
                radix)

\* the value of a digit string in a radix; <<>> when a char is no digit of it
RECURSIVE digits_value(_, _, _)
push_digit(d, rest, radix, accum) ==
    IF d = <<>> THEN <<>> ELSE digits_value(rest, radix, accum * radix + d[1])
digits_value(buf, radix, accum) ==
    IF buf = <<>> THEN <<accum>>
    ELSE push_digit(to_digit(Head(buf), radix), Tail(buf), radix, accum)

\* std::num::from_str_radix::<f64>, which is strconv::from_str_bytes_common
\* with a sign and a fraction allowed and no exponent: <<>> is None, <<v>> is
\* Some(v).  accum is also last_accum, the accumulator before the digit at i;
\* radix_gen is the radix as f64.
RECURSIVE integer_part(_, _, _, _, _, _)
RECURSIVE fraction_part(_, _, _, _, _, _, _)
signed_inf(positive) == <<Infinity(IF positive THEN 0 ELSE 1)>>
\* "add/subtract current digit depending on sign"
with_sign(positive, accum, x) == add(accum, IF positive THEN x ELSE neg(x))

\* "Detect overflow by comparing to last value, except if we've not seen any
\* non-zero digits", then "by reversing the shift-and-add process"
int_overflow(positive, accum, last_accum, digit, radix_gen) ==
    /\ ~eq(last_accum, Zero(0))
    /\ \/ positive /\ le(accum, last_accum)
       \/ ~positive /\ le(last_accum, accum)
       \/ ~eq(last_accum, div(with_sign(~positive, accum, digit), radix_gen))
int_checked(buf, i, radix, radix_gen, positive, accum, last_accum, digit) ==
    IF int_overflow(positive, accum, last_accum, digit, radix_gen)
    THEN signed_inf(positive)
    ELSE integer_part(buf, i + 1, radix, radix_gen, positive, accum)
\* accum = accum * radix, then accum = accum + digit or accum - digit
int_digit(buf, i, radix, radix_gen, positive, accum, digit) ==
    int_checked(buf, i, radix, radix_gen, positive,
                with_sign(positive, mul(accum, radix_gen), digit), accum, digit)
\* Some(accum * multiplier), the multiplier 1 as there is no exponent
finished(accum) == <<mul(accum, from_int(1))>>
\* "Parse integer part of number": a '.' starts the fraction, any other char
\* that is no digit (an exponent char too, as there is no exponent format)
\* gives None
integer_part(buf, i, radix, radix_gen, positive, accum) ==
    IF i > Len(buf) THEN finished(accum)
    ELSE IF to_digit(buf[i], radix) # <<>>
         THEN int_digit(buf, i, radix, radix_gen, positive, accum,
                        from_int(to_digit(buf[i], radix)[1]))
    ELSE IF buf[i] = Ord(".")
         THEN fraction_part(buf, i + 1, radix, radix_gen, positive, accum, from_int(1))
    ELSE <<>>

\* "Detect overflow by comparing to last value"
frac_checked(buf, i, radix, radix_gen, positive, accum, last_accum, power) ==
    IF (positive /\ lt(accum, last_accum)) \/ (~positive /\ lt(last_accum, accum))
    THEN signed_inf(positive)
    ELSE fraction_part(buf, i + 1, radix, radix_gen, positive, accum, power)
\* power is already power / radix: accum = accum + digit * power, or minus
frac_digit(buf, i, radix, radix_gen, positive, accum, power, digit) ==
    frac_checked(buf, i, radix, radix_gen, positive,
                 with_sign(positive, accum, mul(digit, power)), accum, power)
\* "Parse fractional part of number": any char that is no digit gives None
fraction_part(buf, i, radix, radix_gen, positive, accum, power) ==
    IF i > Len(buf) THEN finished(accum)
    ELSE IF to_digit(buf[i], radix) = <<>> THEN <<>>
    ELSE frac_digit(buf, i, radix, radix_gen, positive, accum, div(power, radix_gen),
                    from_int(to_digit(buf[i], radix)[1]))

\* the accumulator starts at zero with the sign of the number; None when
\* nothing follows the sign
after_sign(buf, start, radix, positive) ==
    IF start > Len(buf) THEN <<>>
    ELSE integer_part(buf, start, radix, from_int(radix), positive,
                      Zero(IF positive THEN 0 ELSE 1))
from_str_radix(buf, radix) ==
    IF buf = <<>> THEN <<>>
    ELSE after_sign(buf, IF Head(buf) \in {Ord("-"), Ord("+")} THEN 2 ELSE 1,
                    radix, Head(buf) # Ord("-"))

\* std::num::from_str_radix::<u32>: an optional '+', then one digit or more
from_str_radix_u32(buf, radix) ==
    LET digits == IF buf # <<>> /\ Head(buf) = Ord("+") THEN Tail(buf) ELSE buf
    IN  IF digits = <<>> THEN <<>> ELSE digits_value(digits, radix, 0)

\* std::char::from_u32: None for a surrogate and beyond the last scalar value
from_u32(n) == IF n \in 55296..57343 \/ n > 1114111 THEN <<>> ELSE <<n>>

\* ast::TokenData: op for the operator tokens, text for TIdent, TString and
\* TComment, num for TNumber
TokenData(kind, op, text, num) == [kind |-> kind, op |-> op, text |-> text, num |-> num]
Tk(kind) == TokenData(kind, "", <<>>, Zero(0))
TkOp(kind, op) == TokenData(kind, op, <<>>, Zero(0))
TkText(kind, text) == TokenData(kind, "", text, Zero(0))
TNumber(num) == TokenData("TNumber", "", <<>>, num)

Lexer_new(buffer) ==
    [tokens |-> <<>>,
     ident_buffer |-> <<>>,
     string_buffer |-> <<>>,
     num_buffer |-> <<>>,
     comment_buffer |-> <<>>,
     string_start |-> "None",
     current_comment |-> "None",
     current_number |-> "None",
     escaped |-> FALSE,
     line_number |-> 1,
     column_number |-> 0,
     buffer |-> buffer,
     current_char |-> <<>>]

push_token(l, tk) ==
    [l EXCEPT !.tokens = Append(l.tokens,
        [data |-> tk, line |-> l.line_number, column |-> l.column_number])]

\* what a piece of lex leaves: the lexer, and "Ok", or "Err" for an IoError
\* returned by try!, or "Fail" for fail!
Went(l, how) == [l |-> l, how |-> how]

\* if self.ident_buffer.len() > 0 { push TIdent; self.ident_buffer.clear() }
clear_ident(l) ==
    IF Len(l.ident_buffer) > 0
    THEN [push_token(l, TkText("TIdent", l.ident_buffer)) EXCEPT !.ident_buffer = <<>>]
    ELSE l

radix_of(current_number) ==
    CASE current_number = "HexadecimalNumber" -> 16
      [] current_number = "OctalNumber" -> 8
      [] OTHER -> 10

\* Some(num) => push TNumber(num), None => fail!
push_number(l, num) ==
    IF num = <<>> THEN Went(l, "Fail")
    ELSE Went([push_token(l, TNumber(num[1]))
                  EXCEPT !.num_buffer = <<>>, !.current_number = "None"], "Ok")

\* match self.current_number { Some(number_type) => ..., None => () }
clear_number(l) ==
    IF l.current_number = "None" THEN Went(l, "Ok")
    ELSE push_number(l, from_str_radix(l.num_buffer, radix_of(l.current_number)))

clear_buffer(l) == clear_number(clear_ident(l))

\* IoResult<char>: ok is FALSE at the end of the file
next(l) ==
    IF l.current_char # <<>>
    THEN [l |-> [l EXCEPT !.current_char = <<>>], ok |-> TRUE, ch |-> l.current_char[1]]
    ELSE IF l.buffer = <<>> THEN [l |-> l, ok |-> FALSE, ch |-> 0]
    ELSE [l |-> [l EXCEPT !.buffer = Tail(l.buffer)], ok |-> TRUE, ch |-> Head(l.buffer)]

peek(l) ==
    IF l.buffer = <<>> THEN [l |-> l, ok |-> FALSE, ch |-> 0]
    ELSE [l |-> [l EXCEPT !.buffer = Tail(l.buffer), !.current_char = <<Head(l.buffer)>>],
          ok |-> TRUE, ch |-> Head(l.buffer)]

\* a guard `self.peek() == Ok(c)`: the peek happens, whatever it finds
PeekIs(l, s) == LET p == peek(l) IN [ok |-> p.ok /\ p.ch = Ord(s), l |-> p.l]
Pure(l, cond) == [ok |-> cond, l |-> l]

\* for _ in range(0, n) { nums.push_char(try!(self.next())) }
RECURSIVE read_chars(_, _, _)
read_chars(l, n, nums) ==
    IF n = 0 THEN [l |-> l, ok |-> TRUE, nums |-> nums]
    ELSE LET r == next(l)
         IN  IF ~r.ok THEN [l |-> r.l, ok |-> FALSE, nums |-> nums]
             ELSE read_chars(r.l, n - 1, Append(nums, r.ch))

\* the arms '\x' and '\u' of the escape match: n hex digits
Escaped(l, how, ch) == [l |-> l, how |-> how, ch |-> ch]
\* match from_u32(as_num) { Some(v) => v, None => fail! }
code_char(l, c) == IF c = <<>> THEN Escaped(l, "Fail", <<>>) ELSE Escaped(l, "Ok", c)
\* match from_str_radix(nums, 16) { Some(v) => v, None => 0 }
as_num(parsed) == IF parsed = <<>> THEN 0 ELSE parsed[1]
read_code(r, n) ==
    IF ~r.ok THEN Escaped(r.l, "Err", <<>>)
    ELSE code_char([r.l EXCEPT !.column_number = @ + n],
                   from_u32(as_num(from_str_radix_u32(r.nums, 16))))
escape_code(l, n) == read_code(read_chars(l, n, <<>>), n)

\* the escape match with `_ => ch` for `_ => fail!`
escaped_ch_lenient(l, ch) ==
    CASE ch = Ord("n") -> Escaped(l, "Ok", <<10>>)
      [] ch = Ord("x") -> escape_code(l, 2)
      [] ch = Ord("u") -> escape_code(l, 4)
      [] OTHER -> Escaped(l, "Ok", <<ch>>)

\* let escaped_ch = match ch { ... }
escaped_ch(l, ch) ==
    CASE ch = Ord("n") -> Escaped(l, "Ok", <<10>>)
      [] ch = Ord("r") -> Escaped(l, "Ok", <<13>>)
      [] ch = Ord("t") -> Escaped(l, "Ok", <<9>>)
      [] ch = Ord("b") -> Escaped(l, "Ok", <<8>>)
      [] ch = Ord("f") -> Escaped(l, "Ok", <<12>>)
      [] ch = Ord("0") -> Escaped(l, "Ok", <<0>>)
      [] ch = Ord("x") -> escape_code(l, 2)
      [] ch = Ord("u") -> escape_code(l, 4)
      [] ch = Ord("'") /\ l.string_start = "SingleQuote" -> Escaped(l, "Ok", <<ch>>)
      [] ch = Ord("\"") /\ l.string_start = "DoubleQuote" -> Escaped(l, "Ok", <<ch>>)
      [] OTHER -> Escaped(l, "Fail", <<>>)

\* self.string_buffer.push_char(escaped_ch)
push_escaped(e) ==
    IF e.how # "Ok" THEN Went(e.l, e.how)
    ELSE Went([e.l EXCEPT !.string_buffer = Append(@, e.ch[1])], "Ok")

\* the arm without `self.escaped = false`
escape_sticky(l, ch) ==
    IF ch = Ord("\n") THEN Went(l, "Ok") ELSE push_escaped(escaped_ch(l, ch))

\* the arm `_ if self.escaped`
escape(l, ch) ==
    IF ch = Ord("\n") THEN Went([l EXCEPT !.escaped = FALSE], "Ok")
    ELSE push_escaped(escaped_ch([l EXCEPT !.escaped = FALSE], ch))

\* the arms that flush the buffers and push one token
Punctuation ==
    (Ord(";") :> Tk("TSemicolon")) @@ (Ord(":") :> Tk("TColon")) @@ (Ord(".") :> Tk("TDot"))
    @@ (Ord("(") :> Tk("TOpenParen")) @@ (Ord(")") :> Tk("TCloseParen"))
    @@ (Ord(",") :> Tk("TComma")) @@ (Ord("{") :> Tk("TOpenBlock"))
    @@ (Ord("}") :> Tk("TCloseBlock")) @@ (Ord("[") :> Tk("TOpenArray"))
    @@ (Ord("]") :> Tk("TCloseArray")) @@ (Ord("?") :> Tk("TQuestion"))
NumOps ==
    (Ord("*") :> TkOp("TNumOp", "OpMul")) @@ (Ord("+") :> TkOp("TNumOp", "OpAdd"))
    @@ (Ord("-") :> TkOp("TNumOp", "OpSub")) @@ (Ord("%") :> TkOp("TNumOp", "OpMod"))

then_push(c, tk) == IF c.how # "Ok" THEN c ELSE Went(push_token(c.l, tk), "Ok")
flush_push(l, tk) == then_push(clear_buffer(l), tk)

\* after clear_buffer: self.line_number += lines; self.column_number = 0
then_line(c, lines) ==
    IF c.how # "Ok" THEN c
    ELSE Went([c.l EXCEPT !.line_number = @ + lines, !.column_number = 0], "Ok")

\* the second char of a two-char token is dropped from the lookahead register
taken(l) == [l EXCEPT !.current_char = <<>>]

close_comment(l) ==
    [push_token(l, TkText("TComment", l.comment_buffer))
        EXCEPT !.comment_buffer = <<>>, !.current_comment = "None"]

\* close_string without `self.string_buffer.truncate(0)`
close_string_keeps_buffer(l) ==
    push_token([l EXCEPT !.string_start = "None"], TkText("TString", l.string_buffer))

close_string(l) ==
    [push_token([l EXCEPT !.string_start = "None"], TkText("TString", l.string_buffer))
        EXCEPT !.string_buffer = <<>>]

\* The arms of `match ch` in source order: Guard(i, l, ch) is arm i's pattern and
\* guard, with the lexer as the guard leaves it; Body(i, l, ch) is its body.
Guard(i, l, ch) ==
    CASE i = 1 -> Pure(l, l.escaped)
      [] i = 2 -> Pure(l, ch = Ord("\n") /\ l.current_comment = "SingleLineComment")
      [] i = 3 -> IF ch = Ord("*") /\ l.current_comment = "MultiLineComment"
                  THEN PeekIs(l, "/") ELSE Pure(l, FALSE)
      [] i = 4 -> Pure(l, l.current_comment # "None")
      [] i = 5 -> Pure(l, ch = Ord("\"") /\ l.string_start = "DoubleQuote")
      [] i = 6 -> Pure(l, ch = Ord("'") /\ l.string_start = "SingleQuote")
      [] i = 7 -> Pure(l, ch = Ord("\\") /\ l.string_start # "None")
      [] i = 8 -> Pure(l, l.string_start # "None")
      [] i = 9 -> Pure(l, ch = Ord("\"") /\ l.string_start = "None")
      [] i = 10 -> IF ch = Ord("0") THEN PeekIs(l, "x") ELSE Pure(l, FALSE)
      [] i = 11 -> Pure(l, ch = Ord("0") /\ Len(l.ident_buffer) = 0
                           /\ l.current_number = "None")
      [] i = 12 -> Pure(l, Between("0", ch, "7") /\ l.current_number = "OctalNumber")
      [] i = 13 -> Pure(l, ch \in {Ord("8"), Ord("9")} /\ l.current_number = "OctalNumber")
      [] i = 14 -> Pure(l, /\ \/ Between("0", ch, "9")
                              \/ Between("A", ch, "F")
                              \/ Between("a", ch, "f")
                           /\ l.current_number = "HexadecimalNumber")
      [] i = 15 -> Pure(l, Between("0", ch, "9") /\ Len(l.ident_buffer) = 0)
      [] i = 16 -> Pure(l, ch = Ord("'") /\ l.string_start = "None")
      [] i = 17 -> Pure(l, ch = Ord(".") /\ l.current_number # "None"
                           /\ \A j \in 1..Len(l.num_buffer) : l.num_buffer[j] # Ord("."))
      [] i = 18 -> Pure(l, ch \in DOMAIN Punctuation)
      [] i = 19 -> IF ch = Ord("/") THEN PeekIs(l, "/") ELSE Pure(l, FALSE)
      [] i = 20 -> IF ch = Ord("/") THEN PeekIs(l, "*") ELSE Pure(l, FALSE)
      [] i = 21 -> Pure(l, ch = Ord("/"))
      [] i = 22 -> Pure(l, ch \in DOMAIN NumOps)
      [] i = 23 -> IF ch = Ord("|") THEN PeekIs(l, "|") ELSE Pure(l, FALSE)
      [] i = 24 -> Pure(l, ch = Ord("|"))
      [] i = 25 -> IF ch = Ord("&") THEN PeekIs(l, "&") ELSE Pure(l, FALSE)
      [] i = 26 -> Pure(l, ch = Ord("&"))
      [] i = 27 -> Pure(l, ch = Ord("^"))
      [] i = 28 -> IF ch = Ord("=") THEN PeekIs(l, ">") ELSE Pure(l, FALSE)
      [] i = 29 -> IF ch = Ord("=") THEN PeekIs(l, "=") ELSE Pure(l, FALSE)
      [] i = 30 -> Pure(l, ch = Ord("="))
      [] i = 31 -> IF ch = Ord("<") THEN PeekIs(l, "=") ELSE Pure(l, FALSE)
      [] i = 32 -> Pure(l, ch = Ord("<"))
      [] i = 33 -> IF ch = Ord(">") THEN PeekIs(l, "=") ELSE Pure(l, FALSE)
      [] i = 34 -> Pure(l, ch = Ord(">"))
      [] i = 35 -> IF ch = Ord("!") THEN PeekIs(l, "=") ELSE Pure(l, FALSE)
      [] i = 36 -> Pure(l, ch = Ord("\n"))
      [] i = 37 -> Pure(l, ch = Ord("\r"))
      [] i = 38 -> Pure(l, is_whitespace(ch))
      [] OTHER -> Pure(l, TRUE)

Body(i, l, ch) ==
    CASE i = 1 -> escape(l, ch)
      [] i = 2 -> Went(close_comment(l), "Ok")
      [] i = 3 -> Went(close_comment(taken(l)), "Ok")
      [] i = 4 -> Went([l EXCEPT !.comment_buffer = Append(@, ch)], "Ok")
      [] i = 5 -> Went(close_string(l), "Ok")
      [] i = 6 -> Went(close_string(l), "Ok")
      [] i = 7 -> Went([l EXCEPT !.escaped = TRUE], "Ok")
      [] i = 8 -> Went([l EXCEPT !.string_buffer = Append(@, ch)], "Ok")
      [] i = 9 -> Went([l EXCEPT !.string_start = "DoubleQuote"], "Ok")
      [] i = 10 -> Went([taken(l) EXCEPT !.current_number = "HexadecimalNumber"], "Ok")
      [] i = 11 -> Went([l EXCEPT !.num_buffer = Append(@, ch),
                                  !.current_number = "OctalNumber"], "Ok")
      [] i = 12 -> Went([l EXCEPT !.num_buffer = Append(@, ch)], "Ok")
      [] i = 13 -> Went([l EXCEPT !.num_buffer = Append(@, ch),
                                  !.current_number = "DecimalNumber"], "Ok")
      [] i = 14 -> Went([l EXCEPT !.num_buffer = Append(@, ch)], "Ok")
      [] i = 15 -> Went([l EXCEPT !.num_buffer = Append(@, ch),
                                  !.current_number = "DecimalNumber"], "Ok")
      [] i = 16 -> Went([l EXCEPT !.string_start = "SingleQuote"], "Ok")
      [] i = 17 -> Went([l EXCEPT !.num_buffer = Append(@, ch),
                                  !.current_number = "DecimalNumber"], "Ok")
      [] i = 18 -> flush_push(l, Punctuation[ch])
      [] i = 19 -> Went([taken(l) EXCEPT !.current_comment = "SingleLineComment"], "Ok")
      [] i = 20 -> Went([taken(l) EXCEPT !.current_comment = "MultiLineComment"], "Ok")
      [] i = 21 -> flush_push(l, TkOp("TNumOp", "OpDiv"))
      [] i = 22 -> flush_push(l, NumOps[ch])
      [] i = 23 -> flush_push(taken(l), TkOp("TLogOp", "LogOr"))
      [] i = 24 -> flush_push(l, TkOp("TBitOp", "BitOr"))
      [] i = 25 -> flush_push(taken(l), TkOp("TLogOp", "LogAnd"))
      [] i = 26 -> flush_push(l, TkOp("TBitOp", "BitAnd"))
      [] i = 27 -> flush_push(l, TkOp("TBitOp", "BitXor"))
      [] i = 28 -> flush_push(taken(l), Tk("TArrow"))
      [] i = 29 -> flush_push(taken(l), TkOp("TCompOp", "CompEqual"))
      [] i = 30 -> flush_push(l, Tk("TEqual"))
      [] i = 31 -> flush_push(taken(l), TkOp("TCompOp", "CompLessThanOrEqual"))
      [] i = 32 -> flush_push(l, TkOp("TCompOp", "CompLessThan"))
      [] i = 33 -> flush_push(taken(l), TkOp("TCompOp", "CompGreaterThanOrEqual"))
      [] i = 34 -> flush_push(l, TkOp("TCompOp", "CompGreaterThan"))
      [] i = 35 -> flush_push(taken(l), TkOp("TCompOp", "CompNotEqual"))
      [] i = 36 -> then_line(clear_buffer(l), 1)
      [] i = 37 -> then_line(clear_buffer(l), 0)
      [] i = 38 -> clear_buffer(l)
      [] OTHER -> Went([l EXCEPT !.ident_buffer = Append(@, ch)], "Ok")

\* match ch { ... }: the first arm whose pattern and guard hold
RECURSIVE match_ch(_, _, _)
arm(g, ch, i) == IF g.ok THEN Body(i, g.l, ch) ELSE match_ch(g.l, ch, i + 1)
match_ch(l, ch, i) == arm(Guard(i, l, ch), ch, i)

\* one iteration of the loop of lex, for the char next() returned
lex_char(l, ch) == match_ch([l EXCEPT !.column_number = @ + 1], ch, 1)

(***************************************************************************)
(* std::gc::Gc: a record no handle reaches is reclaimed.  Collect keeps    *)
(* the records reachable from the global object, the scopes and the value  *)
(* the embedder holds, in allocation order; when every record is reachable *)
(* nothing changes.                                                        *)
(***************************************************************************)
MapVals(m) == {m[k] : k \in DOMAIN m}
ObjRefs(vals) == {v.n : v \in {w \in vals : w.type = "VObject"}}
FuncRefs(vals) == {v.n : v \in {w \in vals : w.type = "VFunction" /\ w.n > 0}}

RECURSIVE Reach(_, _)
Reach(heap, S) ==
    LET S2 == S \cup UNION {ObjRefs(MapVals(heap[h])) : h \in S}
    IN  IF S2 = S THEN S ELSE Reach(heap, S2)

Rank(live, h) == Cardinality({j \in live : j <= h})
Nth(live, i) == CHOOSE h \in live : Rank(live, h) = i

Collect(I, held) ==
    LET roots == UNION {MapVals(I.scopes[i]) : i \in 1..Len(I.scopes)} \cup {held}
        objs == Reach(I.heap, {I.global.n} \cup ObjRefs(roots))
        fns == FuncRefs(roots \cup UNION {MapVals(I.heap[h]) : h \in objs})
        Move(v) == CASE v.type = "VObject" -> VObject(Rank(objs, v.n))
                     [] v.type = "VFunction" /\ v.n > 0 -> VFunction(Rank(fns, v.n))
                     [] OTHER -> v
        MoveMap(m) == [k \in DOMAIN m |-> Move(m[k])]
    IN  IF Cardinality(objs) = Len(I.heap) /\ Cardinality(fns) = Len(I.funcs)
        THEN [I |-> I, val |-> held]
        ELSE [I |-> [global |-> Move(I.global),
                     heap |-> [i \in 1..Cardinality(objs) |-> MoveMap(I.heap[Nth(objs, i)])],
                     funcs |-> [i \in 1..Cardinality(fns) |-> I.funcs[Nth(fns, i)]],
                     scopes |-> [i \in 1..Len(I.scopes) |-> MoveMap(I.scopes[i])]],
              val |-> Move(held)]

(***************************************************************************)
(* The embedder: the expressions it runs and the Executor calls it makes   *)
(***************************************************************************)
K1 == ConstExpr(CNum(from_int(1)))
K2 == ConstExpr(CNum(from_int(2)))
KU == ConstExpr(CUndefined)
Lx == LocalExpr("x")
Ly == LocalExpr("y")
SetLocal(name, n) == AssignExpr(LocalExpr(name), ConstExpr(CNum(from_int(n))))

\* function (a) { throw a }   and   function (a) { this.x = a }
ThrowingBody == ThrowExpr(LocalExpr("a"))
SettingBody == AssignExpr(GetConstFieldExpr(LocalExpr("this"), "x"), LocalExpr("a"))
Function(body) == FunctionDeclExpr("", <<"a">>, body)

\* Block([e1, Throw(v), e2])
ThrowBlocks ==
    {BlockExpr(<<e1, ThrowExpr(v), e2>>) :
        e1 \in {SetLocal("x", 1), Ly, ThrowExpr(K1)},
        v \in {Lx, K2, SetLocal("y", 2)},
        e2 \in {SetLocal("x", 2)}}

\* Block([Return(e1), e2]) and Block([Return, e2])
ReturnBlocks ==
    {BlockExpr(<<ReturnExpr(e1), e2>>) : e1 \in {K1, Lx}, e2 \in {SetLocal("x", 2), K2}}
    \cup {BlockExpr(<<ReturnNone, SetLocal("x", 2)>>)}

Assigns ==
    {AssignExpr(Lx, e) : e \in {K1, K2, KU, Ly, ThrowExpr(K1)}}
    \cup {SetLocal("y", 2)}

NonFunctionCallees == {K1, Lx, GetConstFieldExpr(Lx, "y")}
FunctionCallees == {Function(ThrowingBody), Function(SettingBody)}
ArgLists == {<<>>, <<K2>>, <<SetLocal("x", 1), SetLocal("y", 2)>>}
Calls ==
    {CallExpr(callee, args) :
        callee \in NonFunctionCallees \cup FunctionCallees, args \in ArgLists}
Constructs ==
    {ConstructExpr(callee, args) :
        callee \in NonFunctionCallees \cup FunctionCallees, args \in ArgLists}

Programs ==
    {K1, Lx, Ly} \cup ThrowBlocks \cup ReturnBlocks \cup Assigns \cup Calls \cup Constructs

GlobalNames == {"x"}
LocalNames == {"x"}
EmbedderValues == {VUndefined, Number(1)}

NoExpr == ConstExpr(CNull)
Returned(op, expr, kind, val) == [op |-> op, expr |-> expr, kind |-> kind, val |-> val]

Alive == last.kind # "Fail"

SetGlobal(name, val) ==
    /\ Alive
    /\ LET c == Collect(set_global(interp, name, val), val)
       IN  /\ interp' = c.I
           /\ last' = Returned("set_global", NoExpr, "Ok", c.val)
    /\ UNCHANGED <<lexer, script, lexing>>

MakeScope ==
    /\ Alive
    /\ Len(interp.scopes) < MaxScopes
    /\ interp' = Collect(make_scope(interp), VUndefined).I
    /\ last' = Returned("make_scope", NoExpr, "Ok", VUndefined)
    /\ UNCHANGED <<lexer, script, lexing>>

\* the function-call machinery binds a name through the handle make_scope returned
BindLocal(name, val) ==
    /\ Alive
    /\ last.op = "make_scope"
    /\ interp' = [interp EXCEPT !.scopes[Len(interp.scopes)] =
                      MapSet(interp.scopes[Len(interp.scopes)], name, val)]
    /\ last' = Returned("bind_local", NoExpr, "Ok", VUndefined)
    /\ UNCHANGED <<lexer, script, lexing>>

DestroyScope ==
    /\ Alive
    /\ interp' = Collect(destroy_scope(interp), VUndefined).I
    /\ last' = Returned("destroy_scope", NoExpr, "Ok", VUndefined)
    /\ UNCHANGED <<lexer, script, lexing>>

Run(expr) ==
    /\ Alive
    /\ LET r == run(interp, expr)
           c == Collect(r.I, r.val)
       IN  /\ interp' = c.I
           /\ last' = Returned("run", expr, r.kind, c.val)
    /\ UNCHANGED <<lexer, script, lexing>>

InterpInit ==
    /\ \E written \in InitOutcomes : interp = new(written)
    /\ last = Returned("new", NoExpr, "Ok", VUndefined)

\* no script is being lexed
NoLexer ==
    /\ script = <<>>
    /\ lexer = Lexer_new(<<>>)
    /\ lexing = "Ok"

Init ==
    /\ InterpInit
    /\ NoLexer

Next ==
    \/ \E name \in GlobalNames, val \in EmbedderValues : SetGlobal(name, val)
    \/ MakeScope
    \/ \E name \in LocalNames, val \in EmbedderValues : BindLocal(name, val)
    \/ DestroyScope
    \/ \E expr \in Programs : Run(expr)

Spec == Init /\ [][Next]_vars

(***************************************************************************)
(* A script at top level: the embedder runs expression statements, then    *)
(* statements that declare a function f, construct an object o, and work   *)
(* on them                                                                 *)
(***************************************************************************)
Lf == LocalExpr("f")
Lo == LocalExpr("o")
KeyX == ConstExpr(CString("x"))

\* f = function (a) { this.x = a };  o = new f(1);  o.f = f
DeclareF == AssignExpr(Lf, Function(SettingBody))
NewObject == AssignExpr(Lo, ConstructExpr(Lf, <<K1>>))
AttachF == AssignExpr(GetConstFieldExpr(Lo, "f"), Lf)
Setup == {DeclareF, NewObject, AttachF}

\* o["x"] = 2, o[1] = 2 and the reads o["x"], o[1]
FieldAssigns == {AssignExpr(GetFieldExpr(Lo, key), K2) : key \in {KeyX, K1}}
FieldReads == {GetFieldExpr(Lo, key) : key \in {KeyX, K1}}

\* switch (x) { case 1: y = 1;  case 1: y; 2;  default: y = 2 }
SwBoth ==
    SwitchExpr(Lx, <<Case(K1, <<SetLocal("y", 1)>>), Case(K1, <<Ly, K2>>)>>,
               <<SetLocal("y", 2)>>)
\* switch (1) { case (y = 1): 2;  case y: y }
SwOrder == SwitchExpr(K1, <<Case(SetLocal("y", 1), <<K2>>), Case(Ly, <<Ly>>)>>, <<>>)
\* switch ({ y = x; x = 2 }) { case 2: x }
SwOnce ==
    SwitchExpr(BlockExpr(<<AssignExpr(Ly, Lx), SetLocal("x", 2)>>),
               <<Case(K2, <<Lx>>)>>, <<>>)
\* switch (x) { case 2: y = 1 }
SwNoDefault == SwitchExpr(Lx, <<Case(K2, <<SetLocal("y", 1)>>)>>, <<>>)
\* a throw in the discriminant, in a case expression, in a block
SwThrowDisc ==
    SwitchExpr(ThrowExpr(K1), <<Case(SetLocal("y", 2), <<K1>>)>>, <<SetLocal("y", 2)>>)
SwThrowCase ==
    SwitchExpr(K1, <<Case(ThrowExpr(K2), <<SetLocal("y", 1)>>),
                     Case(SetLocal("y", 2), <<K1>>)>>, <<SetLocal("y", 2)>>)
SwThrowBlock ==
    SwitchExpr(K1, <<Case(K1, <<ThrowExpr(K2), SetLocal("y", 1)>>),
                     Case(SetLocal("y", 2), <<K1>>)>>, <<SetLocal("y", 2)>>)
SwThrows == {SwThrowDisc, SwThrowCase, SwThrowBlock}
\* switch (1) { case 1:  case (y = 2): 1;  default: y = 1 }
SwEmpty ==
    SwitchExpr(K1, <<Case(K1, <<>>), Case(SetLocal("y", 2), <<K1>>)>>, <<SetLocal("y", 1)>>)
\* switch (o) { case o: y = 1;  default: y = 2 }, and the same on f
SwSame(local) ==
    SwitchExpr(local, <<Case(local, <<SetLocal("y", 1)>>)>>, <<SetLocal("y", 2)>>)
Switches == {SwBoth, SwOrder, SwOnce, SwNoDefault, SwEmpty, SwSame(Lo), SwSame(Lf)} \cup SwThrows

\* o.f(2), o["f"](2) and f(2)
CallMethod == CallExpr(GetConstFieldExpr(Lo, "f"), <<K2>>)
CallComputed == CallExpr(GetFieldExpr(Lo, ConstExpr(CString("f"))), <<K2>>)
CallPlain == CallExpr(Lf, <<K2>>)
\* { y = x; x = 2; o }.f(1): the object expression has an effect
CallOnce ==
    CallExpr(GetConstFieldExpr(BlockExpr(<<AssignExpr(Ly, Lx), SetLocal("x", 2), Lo>>), "f"),
             <<K1>>)
\* f(f = 1): the argument overwrites the callee
CallCalleeFirst == CallExpr(Lf, <<AssignExpr(Lf, K1)>>)
\* f(y = 1, y = 2) and f(1, x = 2)
CallLeftToRight == CallExpr(Lf, <<SetLocal("y", 1), SetLocal("y", 2)>>)
CallAfterArgs == CallExpr(Lf, <<K1, SetLocal("x", 2)>>)
\* a throw in the second argument, in the callee, in the object of the callee
CallThrowArg == CallExpr(Lf, <<SetLocal("y", 2), ThrowExpr(K1), SetLocal("y", 1)>>)
CallThrowCallee == CallExpr(ThrowExpr(K1), <<SetLocal("y", 2)>>)
CallThrowObject == CallExpr(GetConstFieldExpr(ThrowExpr(K1), "f"), <<SetLocal("y", 2)>>)
CallThrows == {CallThrowCallee, CallThrowObject}
TopCalls ==
    {CallMethod, CallComputed, CallPlain, CallOnce, CallCalleeFirst, CallLeftToRight,
     CallAfterArgs, CallThrowArg} \cup CallThrows

\* 1 + 2 * 3, (x - 1) / 2 % 2 and "x" + x
K(n) == ConstExpr(CNum(from_int(n)))
Arith == NumOpExpr("OpAdd", K1, NumOpExpr("OpMul", K2, K(3)))
Halves == NumOpExpr("OpMod", NumOpExpr("OpDiv", NumOpExpr("OpSub", Lx, K1), K2), K2)
Arithmetic == {Arith, Halves, NumOpExpr("OpAdd", KeyX, Lx)}
\* (6 & 3) | (6 ^ x) and (-7 << x) >> 1
Bitwise ==
    {BitOpExpr("BitOr", BitOpExpr("BitAnd", K(6), K(3)), BitOpExpr("BitXor", K(6), Lx)),
     BitOpExpr("BitShr", BitOpExpr("BitShl", K(-7), Lx), K1)}
\* {a: 1, b: 2}.a + {a: 1, b: 2}.b, [10, 20, 30][1] + [10, 20, 30].length and
\* {a: throw 1, b: y = 1}
ObjectLiteral == ObjectDeclExpr(<<"a", "b">>, <<K1, K2>>)
ArrayLiteral == ArrayDeclExpr(<<K(10), K(20), K(30)>>)
Literals ==
    {NumOpExpr("OpAdd", GetConstFieldExpr(ObjectLiteral, "a"),
               GetConstFieldExpr(ObjectLiteral, "b")),
     NumOpExpr("OpAdd", GetFieldExpr(ArrayLiteral, K1),
               GetConstFieldExpr(ArrayLiteral, "length")),
     ObjectDeclExpr(<<"a", "b">>, <<ThrowExpr(K1), SetLocal("y", 1)>>)}
\* while (x) x = x - 1
CountDown == WhileLoopExpr(Lx, AssignExpr(Lx, NumOpExpr("OpSub", Lx, K1)))

\* NaN as a literal: { NaN }, switch (1) { case 1: NaN }, and the global NaN
KNaN == ConstExpr(CNum(NaN))
NotNumbers ==
    {BlockExpr(<<K1, KNaN>>),
     SwitchExpr(K1, <<Case(K1, <<KNaN>>)>>, <<>>),
     NumOpExpr("OpAdd", LocalExpr("NaN"), K1)}

\* the expression statements the script starts with, before it binds f, o or y
Opening == Arithmetic \cup Bitwise \cup Literals \cup NotNumbers \cup {CountDown}
AtOpening == \A name \in {"f", "o", "y"} : get_global(interp, name) = VUndefined

Statements == Setup \cup FieldAssigns \cup FieldReads \cup Switches \cup TopCalls

RunNext ==
    \/ \E name \in GlobalNames, val \in EmbedderValues : SetGlobal(name, val)
    \/ \E expr \in Statements : Run(expr)
    \/ \E expr \in Opening : AtOpening /\ Run(expr)

RunSpec == Init /\ [][RunNext]_vars

(***************************************************************************)
(* Lexer::lex_str(script): the scripts, and lex one loop iteration a step  *)
(***************************************************************************)
MaxLen == 4         \* chars of a script drawn from an alphabet

Chars(strs) == [i \in DOMAIN strs |-> Ord(strs[i])]
Words(alphabet, n) == UNION {[1..k -> {Ord(c) : c \in alphabet}] : k \in 0..n}

OperatorChars == {"=", ">", "<", "!", "|", "&", "x"}
AssignmentChars == {"x", "=", "1", "2", " ", "\n"}
Scenarios ==
    {Chars(<<"\"", "a", "b", "\\", "n", "\\", "x", "4", "1", "\"">>),
     Chars(<<"0", "x", "F", "F", " ", "+", " ", "0", "1", "0", " ", "+", " ", "9">>),
     Chars(<<"'", "\\", "u", "0", "0", "4", "1", "'", ";">>),
     Chars(<<"a", "/", "b", "*", "c", "*", "/", "d">>),
     Chars(<<"/", "/", "c", "\n", "x", "\r", "y">>)}

\* string literals of one escape: "\c" and '\c', "\xHH" and '\xHH'
Quotes == {"\"", "'"}
Controls == {"n", "r", "t", "b", "f", "0"}
HexChars == {"4", "1", "F", "a"}
EscapeScripts ==
    {Chars(<<q, "\\", c, q>>) : q \in Quotes, c \in Controls}
    \cup {Chars(<<q, "\\", "x", h[1], h[2], q>>) : q \in Quotes, h \in HexChars \X HexChars}

\* scripts that end inside a string, inside an escape or inside a comment
UnterminatedScripts ==
    {Chars(<<"\"", "a">>), Chars(<<"x", "'", "a">>), Chars(<<"\"", "\\">>),
     Chars(<<"\"", "\\", "x">>), Chars(<<"\"", "\\", "x", "4">>),
     Chars(<<"'", "\\", "u", "0", "0">>), Chars(<<"'", "\\", "u", "0", "0", "4", "1">>),
     Chars(<<"/", "*", "a">>), Chars(<<"1", " ", "/", "*", "a", "*">>),
     Chars(<<"/", "/", "a">>)}

\* a block comment, alone and followed by an identifier
CommentBodies ==
    {<<>>, Chars(<<"a">>), Chars(<<"a", "b">>), Chars(<<"a", "*", "b">>), Chars(<<"*">>)}
BlockComment(body) == Chars(<<"/", "*">>) \o body \o Chars(<<"*", "/">>)
BlockCommentScripts ==
    {BlockComment(body) \o rest : body \in CommentBodies, rest \in {<<>>, Chars(<<"x">>)}}

\* a single-line comment, its newline and an identifier on the next line
LineComment(body) == Chars(<<"/", "/">>) \o body \o Chars(<<"\n", "x">>)
LineCommentScripts == {LineComment(body) : body \in {<<>>, Chars(<<"c">>), Chars(<<"c", " ", "d">>)}}

\* a string literal of a backslash, a char that names no escape, and an a
NoEscapes(q) == {"\\", "a", " ", "9"} \cup (Quotes \ {q})
Escaping(q, c) == Chars(<<q, "\\", c, "a", q>>)
NoEscapeScripts == {Escaping(q, c) : q \in Quotes, c \in {"\\", "a", " ", "9", "\n"} \cup Quotes}

\* the chars of numeric literals: the prefix, octal, decimal and hex digits
NumberChars == {"0", "x", "7", "9", "F", "."}

\* an identifier or a number, and right after it, with no separator, a
\* string, a single-line comment or a letter: x"s", x//c, 1"s", 1//c, 1a
PendingX == Chars(<<"x">>)
Pending1 == Chars(<<"1">>)
StringS == Chars(<<"\"", "s", "\"">>)
CommentC == Chars(<<"/", "/", "c", "\n">>)
LetterA == Chars(<<"a">>)
Juxtaposed ==
    ({PendingX, Pending1} \X {StringS, CommentC}) \cup {<<Pending1, LetterA>>}
JuxtaposedScripts == {pair[1] \o pair[2] : pair \in Juxtaposed}

\* the chars that open, close and escape within strings and comments
ModeChars == {"\"", "/", "*", "\\", "\n"}

Scripts ==
    Words(OperatorChars, MaxLen) \cup Words(AssignmentChars, MaxLen) \cup Scenarios
    \cup EscapeScripts \cup Words(NumberChars, MaxLen) \cup UnterminatedScripts
    \cup BlockCommentScripts \cup LineCommentScripts \cup NoEscapeScripts
    \cup JuxtaposedScripts \cup Words(ModeChars, MaxLen)

\* loop { let ch = match self.next() { Ok(ch) => ch, ... }; ...; match ch { ... } }
LexChar ==
    /\ lexing = "loop"
    /\ next(lexer).ok
    /\ LET n == next(lexer)
           w == lex_char(n.l, n.ch)
       IN  /\ lexer' = w.l
           /\ lexing' = IF w.how = "Ok" THEN "loop" ELSE w.how
    /\ UNCHANGED <<interp, last, script>>

\* Err(ref err) if err.kind == EndOfFile => break; then self.clear_buffer(); Ok(())
LexEnd ==
    /\ lexing = "loop"
    /\ ~next(lexer).ok
    /\ LET c == clear_buffer(lexer)
       IN  /\ lexer' = c.l
           /\ lexing' = c.how
    /\ UNCHANGED <<interp, last, script>>

LexInit ==
    /\ InterpInit
    /\ script \in Scripts
    /\ lexer = Lexer_new(script)
    /\ lexing = "loop"

LexNext == LexChar \/ LexEnd

LexSpec == LexInit /\ [][LexNext]_vars

\* the tokens without their positions
Datas(tokens) == [i \in DOMAIN tokens |-> tokens[i].data]

(***************************************************************************)
(* Properties of the evaluator.  Ran(e): this step is the call run(e),     *)
(* from the unprimed interpreter to the primed one.                        *)
(***************************************************************************)
Ran(expr) == last'.op = "run" /\ last'.expr = expr /\ vars' # vars

\* what the embedder sees of a ResultValue r: its kind, its value, the interpreter
Seen(r) ==
    LET c == Collect(r.I, r.val) IN [interp |-> c.I, kind |-> r.kind, val |-> c.val]
SeenNow == [interp |-> interp', kind |-> last'.kind, val |-> last'.val]

BindingScopes(I, name) == {i \in 1..Len(I.scopes) : name \in DOMAIN I.scopes[i]}
Nearest(I, name) ==
    CHOOSE i \in BindingScopes(I, name) : \A j \in BindingScopes(I, name) : j <= i

\* C1: run(Block([e1, Throw(v), e2])) returns Err; when e1 completes the error is
\* the value v has after e1, and the interpreter is left as e1 then v leave it
\* (e2 is not evaluated); when e1 itself throws, that throw is the result.
C1_ThrowPropagates ==
    [][\A b \in ThrowBlocks :
        Ran(b) =>
            LET r1 == run(interp, b.kids[1])
                rv == run(r1.I, b.kids[2].kids[1])
            IN  /\ last'.kind = "Err"
                /\ r1.kind = "Ok" /\ rv.kind = "Ok" => SeenNow = Seen(Err(rv.I, rv.val))
                /\ r1.kind = "Err" => SeenNow = Seen(r1)]_vars

C1_Witness ==
    /\ last.op = "run"
    /\ last.expr = BlockExpr(<<SetLocal("x", 1), ThrowExpr(Lx), SetLocal("x", 2)>>)
    /\ last.kind = "Err"
    /\ last.val = Number(1)
    /\ get_global(interp, "x") = Number(1)

\* C2: run(Local(name)) returns the value of the topmost scope binding name,
\* whatever it is, and the global object's field only when no scope binds name.
C2_LocalLookupOrder ==
    \A name \in {"x", "y"} :
        last.op = "run" /\ last.expr = LocalExpr(name) =>
            /\ last.kind = "Ok"
            /\ last.val = IF BindingScopes(interp, name) # {}
                          THEN interp.scopes[Nearest(interp, name)][name]
                          ELSE get_global(interp, name)

\* C3: when a scope binds x, run(Assign(Local(x), e)) sets the nearest binding of
\* x, leaves the global field x as it was, and Local(x) then reads the value.
C3_AssignScopedLocal ==
    [][\A a \in Assigns :
        /\ Ran(a)
        /\ last'.kind = "Ok"
        /\ BindingScopes(interp, a.kids[1].name) # {}
        => LET name == a.kids[1].name
           IN  /\ interp'.scopes[Nearest(interp, name)][name] = last'.val
               /\ get_global(interp', name) = get_global(interp, name)
               /\ run(interp', LocalExpr(name)).val = last'.val]_vars

\* C4: when no scope binds x and e evaluates to a value, run(Assign(Local(x), e))
\* returns Ok with that value, get_global(x) is that value afterwards, and the
\* other global fields and the scopes are as the evaluation of e left them.
C4_AssignUnscopedLocal ==
    [][\A a \in Assigns :
        LET name == a.kids[1].name
            e == Seen(run(interp, a.kids[2]))
        IN  Ran(a) /\ BindingScopes(interp, name) = {} /\ e.kind = "Ok" =>
                /\ last'.kind = "Ok"
                /\ last'.val = e.val
                /\ get_global(interp', name) = e.val
                /\ DOMAIN interp'.heap[1] = DOMAIN e.interp.heap[1] \cup {name}
                /\ \A k \in DOMAIN e.interp.heap[1] \ {name} :
                        interp'.heap[1][k] = e.interp.heap[1][k]
                /\ interp'.scopes = e.interp.scopes]_vars

C4_Witness ==
    /\ last.op = "run"
    /\ last.expr = AssignExpr(Lx, K2)
    /\ last.kind = "Ok"
    /\ last.val = Number(2)
    /\ Len(interp.scopes) > 0
    /\ BindingScopes(interp, "x") = {}
    /\ get_global(interp, "x") = Number(2)

\* C5: run(Block([Return(e1), e2])) yields the value of e1 (Undefined for a bare
\* Return) as a normal value and does not evaluate e2.
C5_ReturnLeavesBlock ==
    [][\A b \in ReturnBlocks :
        Ran(b) => SeenNow = Seen(run(interp, b.kids[1]))]_vars

\* C6: run(Construct(callee, args)) returns Err(v) when the call of the callee
\* ends with the thrown value v; run never fails the task.
ConstructCall(I, c) ==
    LET func == run(I, c.kids[1])
        v_args == run_args(func.I, Tail(c.kids), 1, <<>>)
        heap == Append(v_args.I.heap, EmptyMap)
        this == VObject(Len(heap))
    IN  call([v_args.I EXCEPT !.heap =
                  set_field(heap, this, "__proto__",
                            get_field(heap, func.val, "prototype"))],
             func.val, this, v_args.val)

C6_ConstructorThrowIsErr ==
    [][\A c \in Constructs :
        /\ Ran(c)
        /\ c.kids[1] \in FunctionCallees
        /\ run_args(interp, Tail(c.kids), 1, <<>>).kind = "Ok"
        => /\ last'.kind # "Fail"
           /\ ConstructCall(interp, c).kind = "Err" =>
                /\ last'.kind = "Err"
                /\ last'.val = ConstructCall(interp, c).val]_vars

\* C7: when the callee evaluates to a value that is no Function and the arguments
\* evaluate, run(Call(callee, args)) returns Err(Undefined) and
\* run(Construct(callee, args)) returns Ok(Undefined), each leaving the
\* interpreter as the evaluation of the callee and then the arguments left it.
C7_NonFunctionCallee ==
    [][\A callee \in NonFunctionCallees, args \in ArgLists :
        LET func == run(interp, callee)
            v_args == run_args(func.I, args, 1, <<>>)
        IN  func.kind = "Ok" /\ func.val.type # "VFunction" /\ v_args.kind = "Ok" =>
                /\ Ran(CallExpr(callee, args)) =>
                        SeenNow = Seen(Err(v_args.I, VUndefined))
                /\ Ran(ConstructExpr(callee, args)) =>
                        SeenNow = Seen(Ok(v_args.I, VUndefined))]_vars

C7_Witness ==
    /\ last.op = "run"
    /\ last.expr = ConstructExpr(K1, <<SetLocal("x", 1), SetLocal("y", 2)>>)
    /\ last.kind = "Ok"
    /\ last.val = VUndefined
    /\ get_global(interp, "x") = Number(1)
    /\ get_global(interp, "y") = Number(2)

\* C14: when o is an object, run(Assign(GetField(o, key), e)) returns the value
\* of e and a following read o[key] returns it too.
C14_AssignComputedField ==
    [][\A a \in FieldAssigns :
        Ran(a) /\ get_global(interp, "o").type = "VObject" =>
            /\ last'.kind = "Ok" /\ last'.val = Number(2)
            /\ run(interp', GetFieldExpr(Lo, a.kids[1].kids[2])).val = Number(2)]_vars

\* the globals f and o, and the fields of o, in interpreter I
GlobalF(I) == get_global(I, "f")
FieldOfO(I, k) == get_field(I.heap, get_global(I, "o"), k)
IsMethod(I) == FieldOfO(I, "f").type = "VFunction"

\* C19: for Call(callee, args) with a field access as callee the object
\* expression is evaluated once and its value is `this`, otherwise `this` is the
\* global object; the callee is resolved before any argument, the arguments are
\* evaluated left to right and the function is invoked after all of them; a
\* throw in the callee or in argument i propagates as Err, the arguments after i
\* are not evaluated and the function is not invoked.
C19_CallOrderAndReceiver ==
    [][/\ \A c \in {CallMethod, CallComputed} :
            Ran(c) /\ IsMethod(interp) =>
                /\ last'.kind = "Ok"
                /\ FieldOfO(interp', "x") = Number(2)
                /\ get_global(interp', "x") = get_global(interp, "x")
       /\ Ran(CallPlain) /\ GlobalF(interp).type = "VFunction" =>
            /\ last'.kind = "Ok"
            /\ get_global(interp', "x") = Number(2)
            /\ FieldOfO(interp', "x") = FieldOfO(interp, "x")
       /\ Ran(CallOnce) /\ IsMethod(interp) /\ get_global(interp, "x") = Number(1) =>
            /\ last'.kind = "Ok"
            /\ get_global(interp', "y") = Number(1)
            /\ get_global(interp', "x") = Number(2)
            /\ FieldOfO(interp', "x") = Number(1)
       /\ Ran(CallCalleeFirst) /\ GlobalF(interp).type = "VFunction" =>
            /\ last'.kind = "Ok"
            /\ GlobalF(interp') = Number(1)
            /\ get_global(interp', "x") = Number(1)
       /\ Ran(CallLeftToRight) /\ GlobalF(interp).type = "VFunction" =>
            /\ last'.kind = "Ok"
            /\ get_global(interp', "y") = Number(2)
            /\ get_global(interp', "x") = Number(1)
       /\ Ran(CallAfterArgs) /\ GlobalF(interp).type = "VFunction" =>
            /\ last'.kind = "Ok"
            /\ get_global(interp', "x") = Number(1)
       /\ Ran(CallThrowArg) =>
            /\ last'.kind = "Err" /\ last'.val = Number(1)
            /\ get_global(interp', "y") = Number(2)
            /\ get_global(interp', "x") = get_global(interp, "x")
       /\ \A c \in CallThrows :
            Ran(c) =>
                /\ last'.kind = "Err" /\ last'.val = Number(1)
                /\ get_global(interp', "y") = get_global(interp, "y")
                /\ get_global(interp', "x") = get_global(interp, "x")]_vars

\* o.f(2) has set o.x and left the global x, which is 1
C19_Witness ==
    /\ last.op = "run" /\ last.expr = CallMethod /\ last.kind = "Ok"
    /\ FieldOfO(interp, "x") = Number(2)
    /\ get_global(interp, "x") = Number(1)

\* C18: Switch evaluates the discriminant once, then every case expression in
\* order; the block of each case whose value equals the discriminant is run, also
\* after an earlier match; the default runs exactly when no case matched and
\* there is one; the result is the value of the last expression of the last
\* block that ran; a throw in the discriminant, a case expression or a block
\* propagates at once.  A case expression that yields the very object or
\* function the discriminant yields equals it.
C18_Switch ==
    [][/\ Ran(SwBoth) /\ get_global(interp, "x") = Number(1) =>
            /\ last'.kind = "Ok" /\ last'.val = Number(2)
            /\ get_global(interp', "y") = Number(1)
       /\ Ran(SwBoth) /\ get_global(interp, "x") # Number(1) =>
            /\ last'.kind = "Ok" /\ last'.val = Number(2)
            /\ get_global(interp', "y") = Number(2)
       /\ Ran(SwOrder) =>
            /\ last'.kind = "Ok" /\ last'.val = Number(1)
            /\ get_global(interp', "y") = Number(1)
       /\ Ran(SwOnce) /\ get_global(interp, "x") = Number(1) =>
            /\ last'.kind = "Ok" /\ last'.val = Number(2)
            /\ get_global(interp', "y") = Number(1)
            /\ get_global(interp', "x") = Number(2)
       /\ Ran(SwNoDefault) =>
            /\ last'.kind = "Ok"
            /\ get_global(interp, "x") # Number(2) =>
                    get_global(interp', "y") = get_global(interp, "y")
            /\ get_global(interp, "x") = Number(2) =>
                    last'.val = Number(1) /\ get_global(interp', "y") = Number(1)
       /\ Ran(SwEmpty) =>
            /\ last'.kind = "Ok"
            /\ get_global(interp', "y") = Number(2)
       /\ \A local \in {Lo, Lf} :
            Ran(SwSame(local)) =>
                /\ last'.kind = "Ok" /\ last'.val = Number(1)
                /\ get_global(interp', "y") = Number(1)
       /\ \A sw \in SwThrows :
            Ran(sw) =>
                /\ last'.kind = "Err"
                /\ last'.val = Number(IF sw = SwThrowDisc THEN 1 ELSE 2)
                /\ get_global(interp', "y") = get_global(interp, "y")]_vars

(***************************************************************************)
(* Properties of the lexer                                                 *)
(***************************************************************************)
\* a script of identifier letters, decimal digits, operators and whitespace:
\* no string, no comment, no escape and no radix prefix
PlainChars == {Ord(c) : c \in OperatorChars \cup AssignmentChars}
Plain(chars) == \A i \in DOMAIN chars : chars[i] \in PlainChars

RECURSIVE DecimalDigits(_)
DecimalDigits(n) ==
    IF n < 10 THEN <<Ord("0") + n>>
    ELSE Append(DecimalDigits(n \div 10), Ord("0") + (n % 10))

\* the chars a token of a plain script stands for
Spelling(data) ==
    CASE data.kind = "TIdent" -> data.text
      [] data.kind = "TNumber" -> DecimalDigits(to_i32(data.num))
      [] data.kind = "TEqual" -> Chars(<<"=">>)
      [] data.kind = "TArrow" -> Chars(<<"=", ">">>)
      [] data.op = "CompEqual" -> Chars(<<"=", "=">>)
      [] data.op = "CompNotEqual" -> Chars(<<"!", "=">>)
      [] data.op = "CompLessThan" -> Chars(<<"<">>)
      [] data.op = "CompGreaterThan" -> Chars(<<">">>)
      [] data.op = "CompLessThanOrEqual" -> Chars(<<"<", "=">>)
      [] data.op = "CompGreaterThanOrEqual" -> Chars(<<">", "=">>)
      [] data.op = "LogOr" -> Chars(<<"|", "|">>)
      [] data.op = "LogAnd" -> Chars(<<"&", "&">>)
      [] data.op = "BitOr" -> Chars(<<"|">>)
      [] data.op = "BitAnd" -> Chars(<<"&">>)

Occurrences(chars, c) == Cardinality({i \in DOMAIN chars : chars[i] = c})
RECURSIVE SumOver(_, _, _)
SumOver(tokens, c, i) ==
    IF i > Len(tokens) THEN 0
    ELSE Occurrences(Spelling(tokens[i].data), c) + SumOver(tokens, c, i + 1)

\* C8: the lexer drops no char: when lex has returned Ok on a plain script, every
\* char that is no whitespace occurs in the spellings of the tokens as often as
\* in the script (so both digits of x=12 are in the number token).
C8_NoCharDropped ==
    lexing = "Ok" /\ script # <<>> /\ Plain(script) =>
        \A c \in PlainChars :
            ~is_whitespace(c) =>
                SumOver(lexer.tokens, c, 1) = Occurrences(script, c)

\* C9: a two-char operator at the start of a script is one token of its own
\* kind whatever follows, alone when nothing follows and followed by one
\* TIdent when identifier letters follow; a =, <, >, | or & without its partner
\* is the one-char token.
TwoCharOps ==
    (Chars(<<"=", ">">>) :> Tk("TArrow"))
    @@ (Chars(<<"=", "=">>) :> TkOp("TCompOp", "CompEqual"))
    @@ (Chars(<<"<", "=">>) :> TkOp("TCompOp", "CompLessThanOrEqual"))
    @@ (Chars(<<">", "=">>) :> TkOp("TCompOp", "CompGreaterThanOrEqual"))
    @@ (Chars(<<"!", "=">>) :> TkOp("TCompOp", "CompNotEqual"))
    @@ (Chars(<<"|", "|">>) :> TkOp("TLogOp", "LogOr"))
    @@ (Chars(<<"&", "&">>) :> TkOp("TLogOp", "LogAnd"))
OneCharOps ==
    (Ord("=") :> Tk("TEqual"))
    @@ (Ord("<") :> TkOp("TCompOp", "CompLessThan"))
    @@ (Ord(">") :> TkOp("TCompOp", "CompGreaterThan"))
    @@ (Ord("|") :> TkOp("TBitOp", "BitOr"))
    @@ (Ord("&") :> TkOp("TBitOp", "BitAnd"))

C9_TwoCharOperators ==
    lexing = "Ok" /\ script # <<>> =>
        LET pair == IF Len(script) >= 2 THEN SubSeq(script, 1, 2) ELSE script
            rest == SubSeq(script, 3, Len(script))
            datas == Datas(lexer.tokens)
        IN  /\ pair \in DOMAIN TwoCharOps =>
                /\ datas # <<>>
                /\ datas[1] = TwoCharOps[pair]
                /\ rest = <<>> => datas = <<TwoCharOps[pair]>>
                /\ rest # <<>> /\ (\A i \in DOMAIN rest : rest[i] = Ord("x")) =>
                        datas = <<TwoCharOps[pair], TkText("TIdent", rest)>>
            /\ pair \notin DOMAIN TwoCharOps /\ script[1] \in DOMAIN OneCharOps =>
                /\ datas # <<>>
                /\ datas[1] = OneCharOps[script[1]]

\* C10: while a plain script is lexed, column_number is the number of chars
\* consumed since the last '\n' or '\r' consumed (the start of the script when
\* there is none), the chars taken through the lookahead register included;
\* every token has line >= 1.
Consumed == Len(script) - Len(lexer.buffer) - Len(lexer.current_char)
LastReset ==
    LET resets == {i \in 1..Consumed : script[i] \in {Ord("\n"), Ord("\r")}}
    IN  IF resets = {} THEN 0 ELSE CHOOSE i \in resets : \A j \in resets : j <= i

C10_ColumnTracking ==
    script # <<>> /\ Plain(script) /\ lexing \in {"loop", "Ok"} =>
        /\ lexer.column_number = Consumed - LastReset
        /\ \A i \in DOMAIN lexer.tokens : lexer.tokens[i].line >= 1

\* C11: a string literal of a backslash and one of n, r, t, b, f, 0 lexes to
\* one TString of the one control char, in either quote kind; \xHH gives the
\* char with code HH; "ab\n\x41" is one TString of a, b, LF, A; the escaped
\* flag is set only between the backslash and the char after it.
ControlChar ==
    ("n" :> 10) @@ ("r" :> 13) @@ ("t" :> 9) @@ ("b" :> 8) @@ ("f" :> 12) @@ ("0" :> 0)
HexValue == ("4" :> 4) @@ ("1" :> 1) @@ ("F" :> 15) @@ ("a" :> 10)
JustOne(data) == lexing = "Ok" /\ Datas(lexer.tokens) = <<data>>

C11_EscapeRoundTrip ==
    /\ \A q \in Quotes, c \in Controls :
            script = Chars(<<q, "\\", c, q>>) /\ lexing # "loop" =>
                JustOne(TkText("TString", <<ControlChar[c]>>))
    /\ \A q \in Quotes, h \in HexChars \X HexChars :
            script = Chars(<<q, "\\", "x", h[1], h[2], q>>) /\ lexing # "loop" =>
                JustOne(TkText("TString", <<16 * HexValue[h[1]] + HexValue[h[2]]>>))
    /\ script = Chars(<<"\"", "a", "b", "\\", "n", "\\", "x", "4", "1", "\"">>)
            /\ lexing # "loop" =>
                JustOne(TkText("TString", <<Ord("a"), Ord("b"), 10, Ord("A")>>))
    /\ script \in EscapeScripts \cup Scenarios /\ lexing \in {"loop", "Ok"} =>
            (lexer.escaped <=> Consumed >= 1 /\ script[Consumed] = Ord("\\"))

C11_Witness ==
    /\ script = Chars(<<"'", "\\", "x", "4", "F", "'">>)
    /\ JustOne(TkText("TString", <<79>>))
    /\ ~lexer.escaped

\* C12: 0x and hex digits is one TNumber of the base-16 value; 0 and digits
\* 0..7 is one TNumber of the base-8 value; a digit sequence with at most
\* one '.' inside it that is neither (so a leading-0 one with an 8, a 9 or
\* a '.') is one TNumber of the base-10 value; 0xFF + 010 + 9 lexes to
\* 255, +, 8, +, 9.
DigitValue == (Ord("0") :> 0) @@ (Ord("7") :> 7) @@ (Ord("9") :> 9) @@ (Ord("F") :> 15)
RECURSIVE ValueIn(_, _)
ValueIn(digits, radix) ==
    IF digits = <<>> THEN 0
    ELSE ValueIn(SubSeq(digits, 1, Len(digits) - 1), radix) * radix
            + DigitValue[digits[Len(digits)]]
AllIn(chars, from, set) == \A i \in from..Len(chars) : chars[i] \in {Ord(c) : c \in set}
IsHexLiteral(chars) ==
    Len(chars) >= 3 /\ SubSeq(chars, 1, 2) = Chars(<<"0", "x">>)
        /\ AllIn(chars, 3, {"0", "7", "9", "F"})
IsOctalLiteral(chars) == chars # <<>> /\ chars[1] = Ord("0") /\ AllIn(chars, 2, {"0", "7"})
IsDecimalLiteral(chars) ==
    /\ chars # <<>> /\ AllIn(chars, 1, {"0", "7", "9", "."})
    /\ chars[1] # Ord(".") /\ chars[Len(chars)] # Ord(".")
    /\ Occurrences(chars, Ord(".")) <= 1
    /\ ~IsOctalLiteral(chars)
WithoutDot(chars) == SelectSeq(chars, LAMBDA c : c # Ord("."))
Places(chars) ==
    IF Occurrences(chars, Ord(".")) = 0 THEN 0
    ELSE Len(chars) - CHOOSE i \in DOMAIN chars : chars[i] = Ord(".")
\* the tokens are one TNumber of value n / d, as the f64 nearest to it
OneNumber(n, d) ==
    /\ lexing = "Ok" /\ Len(lexer.tokens) = 1
    /\ lexer.tokens[1].data.kind = "TNumber"
    /\ lexer.tokens[1].data.num = div(from_int(n), from_int(d))

C12_NumberRadix ==
    lexing # "loop" =>
        /\ IsHexLiteral(script) => OneNumber(ValueIn(SubSeq(script, 3, Len(script)), 16), 1)
        /\ IsOctalLiteral(script) => OneNumber(ValueIn(script, 8), 1)
        /\ IsDecimalLiteral(script) =>
                OneNumber(ValueIn(WithoutDot(script), 10), Pow(10, Places(script)))
        /\ script = Chars(<<"0", "x", "F", "F", " ", "+", " ", "0", "1", "0", " ", "+", " ", "9">>) =>
                /\ lexing = "Ok"
                /\ Datas(lexer.tokens) =
                        <<TNumber(from_int(255)), TkOp("TNumOp", "OpAdd"),
                          TNumber(from_int(8)), TkOp("TNumOp", "OpAdd"),
                          TNumber(from_int(9))>>

\* C13: on a script that ends inside a string, inside an escape sequence or
\* inside a comment, lex returns Ok, and on return the identifier buffer is
\* empty and no number is in progress.
C13_EndOfStream ==
    script \in UnterminatedScripts =>
        /\ lexing \in {"loop", "Ok"}
        /\ lexing = "Ok" =>
                lexer.ident_buffer = <<>> /\ lexer.current_number = "None"

\* C15: / and * start a block comment whatever follows, the first * followed
\* by / ends it: the comment is one TComment of the chars between, no other
\* token comes from it, and an identifier after it is lexed as usual.
C15_BlockComment ==
    \A body \in CommentBodies :
        /\ script = BlockComment(body) /\ lexing # "loop" =>
                JustOne(TkText("TComment", body))
        /\ script = BlockComment(body) \o Chars(<<"x">>) /\ lexing # "loop" =>
                /\ lexing = "Ok"
                /\ Datas(lexer.tokens) =
                        <<TkText("TComment", body), TkText("TIdent", Chars(<<"x">>))>>

\* C16: the newline that ends a single-line comment emits the TComment and
\* starts a new line: line_number is one more and the column is reset, so the
\* identifier on the next line carries the line after the comment's.
C16_LineAfterComment ==
    \A body \in {<<>>, Chars(<<"c">>), Chars(<<"c", " ", "d">>)} :
        script = LineComment(body) =>
            /\ lexing \in {"loop", "Ok"}
            /\ Consumed = Len(body) + 3 =>
                    /\ Datas(lexer.tokens) = <<TkText("TComment", body)>>
                    /\ lexer.current_comment = "None"
                    /\ lexer.line_number = 2 /\ lexer.column_number = 0
            /\ lexing = "Ok" =>
                    /\ Datas(lexer.tokens) =
                            <<TkText("TComment", body), TkText("TIdent", Chars(<<"x">>))>>
                    /\ lexer.tokens[2].line = lexer.tokens[1].line + 1

\* C17 as stated: in a string, a backslash followed by a char that is none of
\* n, r, t, b, f, 0, x, u and not the string's own quote (a raw newline
\* included) ends lexing in a failure.
C17_InvalidEscapeFatal ==
    \A q \in Quotes :
        \A c \in NoEscapes(q) \cup {"\n"} :
            script = Escaping(q, c) /\ Consumed >= 3 => lexing = "Fail"

\* C17 amended: so it is for every such char but the raw newline, and nothing
\* of the string is emitted; a backslash followed by a raw newline is skipped:
\* the literal lexes to one TString without the newline.
C17_InvalidEscapeOrContinuation ==
    \A q \in Quotes :
        /\ \A c \in NoEscapes(q) :
                script = Escaping(q, c) =>
                    /\ lexing # "Ok" /\ lexer.tokens = <<>> /\ lexer.string_buffer = <<>>
                    /\ Consumed >= 3 => lexing = "Fail"
        /\ script = Escaping(q, "\n") =>
                /\ lexing \in {"loop", "Ok"}
                /\ lexing = "Ok" => Datas(lexer.tokens) = <<TkText("TString", Chars(<<"a">>))>>
                /\ Consumed = 3 => ~lexer.escaped /\ lexer.string_buffer = <<>>

C17_Witness ==
    /\ script = Escaping("\"", "'")
    /\ Consumed = 3
    /\ lexing = "Fail"

\* the token of each lexeme of a juxtaposed script
TokenOf(lexeme) ==
    CASE lexeme = PendingX -> TkText("TIdent", Chars(<<"x">>))
      [] lexeme = Pending1 -> TNumber(from_int(1))
      [] lexeme = StringS -> TkText("TString", Chars(<<"s">>))
      [] lexeme = CommentC -> TkText("TComment", Chars(<<"c">>))
      [] lexeme = LetterA -> TkText("TIdent", Chars(<<"a">>))

\* C20: tokens are emitted in source order: when the first char of token A comes
\* before the first char of token B in the input, A comes before B in the token
\* list, also when an identifier or a number is pending as a string, a comment
\* or letters begin without a separator.
C20_SourceOrder ==
    \A pair \in Juxtaposed :
        script = pair[1] \o pair[2] =>
            \A i, j \in DOMAIN lexer.tokens :
                /\ lexer.tokens[i].data = TokenOf(pair[1])
                /\ lexer.tokens[j].data = TokenOf(pair[2])
                => i < j

\* C21: in every state reached by lexing, string mode and comment mode are not
\* both active, the escaped flag is set only while a string is open,
\* string_buffer is non-empty only while a string is open and comment_buffer is
\* non-empty only while a comment is open.
C21_ModeExclusivity ==
    /\ ~(lexer.string_start # "None" /\ lexer.current_comment # "None")
    /\ lexer.escaped => lexer.string_start # "None"
    /\ lexer.string_buffer # <<>> => lexer.string_start # "None"
    /\ lexer.comment_buffer # <<>> => lexer.current_comment # "None"

\* "/*" has been lexed up to its closing quote: the two comment chars are in the open
\* string and no comment is open, and the string then closes with its buffer emptied
C21_Witness ==
    /\ script = Chars(<<"\"", "/", "*", "\"">>)
    /\ lexing = "Ok"
    /\ Datas(lexer.tokens) = <<TkText("TString", Chars(<<"/", "*">>))>>
    /\ lexer.string_start = "None" /\ lexer.current_comment = "None"
    /\ lexer.string_buffer = <<>>

====
